---- MODULE Spec2Model ----
(***************************************************************************)
(* Model of SapSmartChargingIntegration (src/SapSmartChargingIntegration.ts *)
(* lines 1-705): one translation cycle of buildChargingProfiles, i.e. the   *)
(* topology sanitizer, the fuse-tree builder, the car builder with sticky   *)
(* limitation, the call of the optimizer and the plan translator; cycles    *)
(* repeated on one site object (SpecRepeated) and a cycle of another site   *)
(* run on the same integration (SpecInterleaved).                           *)
(*                                                                          *)
(* JavaScript numbers are modelled as exact rationals <<n, d>> with d > 0   *)
(* in lowest terms; a missing (undefined / 0 / null) value is the integer 0 *)
(* for identifiers and counters and the rational Zero for quantities.       *)
(***************************************************************************)
EXTENDS Integers, Sequences, FiniteSets, TLC

\* ------------------------------------------------------------------------
\* Bounds of the model
\* ------------------------------------------------------------------------

MaxStations == 2

\* ------------------------------------------------------------------------
\* Rational arithmetic
\* ------------------------------------------------------------------------

Abs(x) == IF x < 0 THEN -x ELSE x

RECURSIVE GCD(_, _)
GCD(a, b) == IF b = 0 THEN a ELSE GCD(b, a % b)

RNorm(n, d) ==
  LET g == GCD(Abs(n), Abs(d))
      s == IF d < 0 THEN -1 ELSE 1
  IN  <<(s * n) \div g, (s * d) \div g>>

R(n) == <<n, 1>>
Zero == R(0)
RAdd(x, y) == RNorm(x[1] * y[2] + y[1] * x[2], x[2] * y[2])
RSub(x, y) == RNorm(x[1] * y[2] - y[1] * x[2], x[2] * y[2])
RMul(x, y) == RNorm(x[1] * y[1], x[2] * y[2])
RDiv(x, y) == RNorm(x[1] * y[2], x[2] * y[1])
RLess(x, y) == x[1] * y[2] < y[1] * x[2]
RLeq(x, y) == x[1] * y[2] <= y[1] * x[2]
RMax(x, y) == IF RLess(x, y) THEN y ELSE x

\* ------------------------------------------------------------------------
\* Domain values
\* ------------------------------------------------------------------------

Null == [null |-> TRUE]

AC == "AC"
DC == "DC"

\* ChargePointStatus values met on a connector
CHARGING == "Charging"
SUSPENDED_EV == "SuspendedEV"
SUSPENDED_EVSE == "SuspendedEVSE"
OCCUPIED == "Occupied"
AVAILABLE == "Available"

\* Constants.DC_CHARGING_STATION_DEFAULT_EFFICIENCY_PERCENT
DC_CHARGING_STATION_DEFAULT_EFFICIENCY_PERCENT == 80

\* A transaction id that TransactionStorage cannot resolve
LostTransactionID == 999

Connector(id, cpID, status, txID, amperage, phases, currentType) ==
  [connectorId |-> id, chargePointID |-> cpID, status |-> status,
   currentTransactionID |-> txID, amperage |-> amperage,
   numberOfConnectedPhase |-> phases, currentType |-> currentType]

ChargePoint(id, connectorIDs, amperage, phases, currentType, efficiency, share, exclusive, excluded) ==
  [chargePointID |-> id, connectorIDs |-> connectorIDs, amperage |-> amperage,
   numberOfConnectedPhases |-> phases, currentType |-> currentType,
   efficiency |-> efficiency, sharePowerToAllConnectors |-> share,
   cannotChargeInParallel |-> exclusive,
   excludeFromPowerLimitation |-> excluded]

Station(id, excluded, power, voltage, chargePoints, connectors) ==
  [id |-> id, excludeFromSmartCharging |-> excluded, maximumPower |-> power,
   voltage |-> voltage, chargePoints |-> chargePoints,
   connectors |-> connectors]

\* Transaction id of the session running on connector c of station s
Tx(s, c) == 10 * s + c

\* A valid connector without charge point
Plain(s, c, amperage, phases) ==
  Connector(c, 0, CHARGING, Tx(s, c), amperage, phases, AC)

\* A connector attached to charge point 1 (its own ratings are unused)
OnCP(s, c, status) == Connector(c, 1, status, Tx(s, c), 0, 0, AC)

CP(connectorIDs, currentType, efficiency, share, exclusive, excluded) ==
  ChargePoint(1, connectorIDs, 64, 3, currentType, efficiency,
              share, exclusive, excluded)

StationKinds ==
  {"ac3", "acMixed", "excluded230", "excluded400", "cpPlain", "cpShare",
   "cpExclusive2", "cpExclusive1", "cpExcludedOne", "cpExcludedBoth",
   "cpExcludedOnly", "cpUnresolved", "noSession", "lostSession", "noPhases",
   "noAmps", "dc90", "dcDefault"}

\* The station with identifier s of each kind
MkStation(s, kind) ==
  CASE kind = "ac3" ->
         Station(s, FALSE, 22080, 230, <<>>, <<Plain(s, 1, 32, 3)>>)
    [] kind = "acMixed" ->
         Station(s, FALSE, 22080, 230, <<>>,
                 <<Plain(s, 1, 32, 3), Plain(s, 2, 16, 1)>>)
    [] kind = "excluded230" ->
         Station(s, TRUE, 22080, 230, <<>>, <<Plain(s, 1, 32, 3)>>)
    [] kind = "excluded400" ->
         Station(s, TRUE, 50000, 400, <<>>, <<Plain(s, 1, 32, 3)>>)
    [] kind = "cpPlain" ->
         Station(s, FALSE, 22080, 230,
                 <<CP(<<1, 2>>, AC, 0, FALSE, FALSE, FALSE)>>,
                 <<OnCP(s, 1, CHARGING), OnCP(s, 2, SUSPENDED_EVSE)>>)
    [] kind = "cpShare" ->
         Station(s, FALSE, 22080, 230,
                 <<CP(<<1, 2>>, AC, 0, TRUE, FALSE, FALSE)>>,
                 <<OnCP(s, 1, CHARGING), OnCP(s, 2, OCCUPIED)>>)
    [] kind = "cpExclusive2" ->
         Station(s, FALSE, 22080, 230,
                 <<CP(<<1, 2>>, AC, 0, FALSE, TRUE, FALSE)>>,
                 <<OnCP(s, 1, CHARGING), OnCP(s, 2, SUSPENDED_EV)>>)
    [] kind = "cpExclusive1" ->
         Station(s, FALSE, 22080, 230,
                 <<CP(<<1, 2>>, AC, 0, FALSE, TRUE, FALSE)>>,
                 <<OnCP(s, 1, CHARGING)>>)
    [] kind = "cpExcludedOne" ->
         Station(s, FALSE, 22080, 230,
                 <<CP(<<1>>, AC, 0, FALSE, FALSE, TRUE)>>,
                 <<OnCP(s, 1, CHARGING), Plain(s, 2, 32, 3)>>)
    [] kind = "cpExcludedBoth" ->
         Station(s, FALSE, 22080, 230,
                 <<CP(<<1, 2>>, AC, 0, FALSE, FALSE, TRUE)>>,
                 <<OnCP(s, 1, CHARGING), OnCP(s, 2, CHARGING)>>)
    [] kind = "cpExcludedOnly" ->
         Station(s, FALSE, 22080, 230,
                 <<CP(<<1>>, AC, 0, FALSE, FALSE, TRUE)>>,
                 <<OnCP(s, 1, CHARGING)>>)
    [] kind = "cpUnresolved" ->
         Station(s, FALSE, 22080, 230,
                 <<CP(<<1>>, AC, 0, FALSE, FALSE, FALSE)>>,
                 <<OnCP(s, 1, CHARGING),
                   Connector(2, 7, CHARGING, Tx(s, 2), 32, 3, AC)>>)
    [] kind = "noSession" ->
         Station(s, FALSE, 22080, 230, <<>>,
                 <<Plain(s, 1, 32, 3),
                   Connector(2, 0, AVAILABLE, 0, 32, 3, AC)>>)
    [] kind = "lostSession" ->
         Station(s, FALSE, 22080, 230, <<>>,
                 <<Plain(s, 1, 32, 3),
                   Connector(2, 0, CHARGING, LostTransactionID, 32, 3, AC)>>)
    [] kind = "noPhases" ->
         Station(s, FALSE, 22080, 230, <<>>,
                 <<Plain(s, 1, 32, 3), Plain(s, 2, 32, 0)>>)
    [] kind = "noAmps" ->
         Station(s, FALSE, 22080, 230, <<>>,
                 <<Plain(s, 1, 32, 3), Plain(s, 2, 0, 3)>>)
    [] kind = "ac120" ->
         Station(s, FALSE, 27600, 230, <<>>, <<Plain(s, 1, 120, 3)>>)
    [] kind = "dc90" ->
         Station(s, FALSE, 50000, 400,
                 <<CP(<<1>>, DC, 90, FALSE, FALSE, FALSE)>>,
                 <<OnCP(s, 1, CHARGING)>>)
    [] kind = "dcDefault" ->
         Station(s, FALSE, 50000, 400,
                 <<CP(<<1>>, DC, 0, FALSE, FALSE, FALSE)>>,
                 <<OnCP(s, 1, CHARGING)>>)

\* Station lists of the storage: stations 1..n, each of some kind
StationLists ==
  UNION {{[i \in 1..n |-> MkStation(i, kinds[i])] :
            kinds \in [1..n -> StationKinds]} : n \in 0..MaxStations}

\* Site areas handed to buildChargingProfiles (0 = value not set)
SiteAreas ==
  {[maximumPower |-> R(p), voltage |-> v, numberOfPhases |-> n,
    chargingStations |-> <<>>] :
     p \in {10000, 100000}, v \in {230}, n \in {3}}
  \cup {[maximumPower |-> R(100000), voltage |-> 230, numberOfPhases |-> 1,
         chargingStations |-> <<>>],
        [maximumPower |-> R(0), voltage |-> 230, numberOfPhases |-> 3,
         chargingStations |-> <<>>],
        [maximumPower |-> R(10000), voltage |-> 0, numberOfPhases |-> 3,
         chargingStations |-> <<>>],
        [maximumPower |-> R(10000), voltage |-> 230, numberOfPhases |-> 0,
         chargingStations |-> <<>>]}

\* ------------------------------------------------------------------------
\* Surroundings of a translation cycle
\* ------------------------------------------------------------------------

\* What a cycle reads of its surroundings, and the field of the integration
\* that outlives a cycle
VARIABLES
  now,                      \* the clock, in seconds since local midnight
  setting,                  \* this.setting: stickyLimitation, limitBufferAC/DC
  session,                  \* live data of the sessions in TransactionStorage
  profileStorage,           \* charging profiles in ChargingStationStorage
  maxPeriods,               \* OCPP parameter ChargingScheduleMaxPeriods, parsed
  optimizerPlan,            \* kind of the plan the optimizer answers for a car
  currentChargingProfiles,  \* this.currentChargingProfiles
  previousCycle             \* what the former cycle on the site object was given and built

Undefined == [undefined |-> TRUE]

\* this.currentChargingProfiles before any read: no list is there
NeverRead == [undefined |-> TRUE, result |-> <<>>]

\* ------------------------------------------------------------------------
\* Utils lookups over the domain entities
\* ------------------------------------------------------------------------

RemoveAt(seq, i) == SubSeq(seq, 1, i - 1) \o SubSeq(seq, i + 1, Len(seq))

\* Utils.getChargePointFromID: the charge point of that id, or nothing
getChargePointFromID(chargingStation, chargePointID) ==
  LET found == {i \in 1..Len(chargingStation.chargePoints) :
                  chargingStation.chargePoints[i].chargePointID = chargePointID}
  IN  IF found = {} THEN Null
      ELSE chargingStation.chargePoints[CHOOSE i \in found : \A k \in found : i <= k]

\* Utils.getConnectorFromID: the connector of that id, or nothing
getConnectorFromID(chargingStation, connectorID) ==
  LET found == {i \in 1..Len(chargingStation.connectors) :
                  chargingStation.connectors[i].connectorId = connectorID}
  IN  IF found = {} THEN Null
      ELSE chargingStation.connectors[CHOOSE i \in found : \A k \in found : i <= k]

\* Utils.getChargingStationVoltage
getChargingStationVoltage(chargingStation) == R(chargingStation.voltage)

\* Utils.getChargingStationAmperage: the charge point is the source of truth
getChargingStationAmperage(chargingStation, chargePoint, connectorId) ==
  LET connector == getConnectorFromID(chargingStation, connectorId)
      source == IF chargePoint # Null \/ connector = Null THEN chargePoint
                ELSE getChargePointFromID(chargingStation, connector.chargePointID)
  IN  IF source # Null THEN R(source.amperage)
      ELSE IF connector = Null THEN Zero ELSE R(connector.amperage)

\* Utils.getNumberOfConnectedPhases
getNumberOfConnectedPhases(chargingStation, chargePoint, connectorId) ==
  LET connector == getConnectorFromID(chargingStation, connectorId)
      source == IF chargePoint # Null \/ connector = Null THEN chargePoint
                ELSE getChargePointFromID(chargingStation, connector.chargePointID)
  IN  IF source # Null THEN source.numberOfConnectedPhases
      ELSE IF connector = Null THEN 0 ELSE connector.numberOfConnectedPhase

\* Utils.getChargingStationCurrentType(chargingStation, null, connectorId)
getChargingStationCurrentType(chargingStation, connectorId) ==
  LET connector == getConnectorFromID(chargingStation, connectorId)
      chargePoint == IF connector = Null THEN Null
                     ELSE getChargePointFromID(chargingStation, connector.chargePointID)
  IN  IF chargePoint # Null THEN chargePoint.currentType
      ELSE IF connector # Null THEN connector.currentType
      ELSE AC

\* TransactionStorage.getTransaction: the session of that id, or nothing
getTransaction(chargingStation, connector) ==
  IF connector.currentTransactionID = LostTransactionID THEN Null
  ELSE [id |-> connector.currentTransactionID,
        chargeBoxID |-> chargingStation.id,
        connectorId |-> connector.connectorId,
        timestamp |-> session.timestamp,
        currentTotalConsumptionWh |-> session.currentTotalConsumptionWh,
        carID |-> session.carID,
        phasesUsed |-> session.phasesUsed,
        currentInstantAmps |-> session.currentInstantAmps,
        currentInstantWattsDC |-> session.currentInstantWattsDC]

\* ------------------------------------------------------------------------
\* Topology sanitizer
\* ------------------------------------------------------------------------

\* checkIfSiteAreaIsValid (SmartChargingIntegration): "" or the error
checkIfSiteAreaIsValid(siteArea) ==
  IF siteArea.maximumPower = Zero \/ siteArea.voltage = 0
     \/ siteArea.numberOfPhases = 0 \/ Len(siteArea.chargingStations) = 0
  THEN "ValidationError"
  ELSE ""

\* One pass of the inner loop of adjustSiteLimitation, from index j down to 1.
\* st = [connectors, processed, siteMaxAmps, error]
RECURSIVE AdjustConnectors(_, _, _)
AdjustConnectors(chargingStation, j, st) ==
  IF j < 1 \/ st.error # "" THEN st
  ELSE
    LET connector == st.connectors[j]
        chargePoint == getChargePointFromID(chargingStation, connector.chargePointID)
    IN  IF connector.chargePointID = 0
        THEN AdjustConnectors(chargingStation, j - 1, st)
        ELSE IF chargePoint = Null
        THEN \* chargePoint.excludeFromPowerLimitation on undefined
             [st EXCEPT !.error = "TypeError"]
        ELSE IF chargePoint.excludeFromPowerLimitation
                /\ chargePoint.chargePointID \notin st.processed
        THEN AdjustConnectors(chargingStation, j - 1,
               [connectors |-> RemoveAt(st.connectors, j),
                processed |-> st.processed \cup {chargePoint.chargePointID},
                siteMaxAmps |-> RSub(st.siteMaxAmps,
                   getChargingStationAmperage(chargingStation, chargePoint,
                                              connector.connectorId)),
                error |-> ""])
        ELSE AdjustConnectors(chargingStation, j - 1, st)

\* The outer loop of adjustSiteLimitation, from index i down to 1.
\* st = [chargingStations, siteMaxAmps, error]
RECURSIVE AdjustStations(_, _, _)
AdjustStations(excludedChargingStations, i, st) ==
  IF i < 1 \/ st.error # "" THEN st
  ELSE
    LET chargingStation == st.chargingStations[i]
        chargingStationVoltage == getChargingStationVoltage(chargingStation)
    IN  IF chargingStation.excludeFromSmartCharging
           \/ chargingStation.id \in excludedChargingStations
        THEN AdjustStations(excludedChargingStations, i - 1,
               [chargingStations |-> RemoveAt(st.chargingStations, i),
                siteMaxAmps |-> RSub(st.siteMaxAmps,
                   RDiv(R(chargingStation.maximumPower), chargingStationVoltage)),
                error |-> ""])
        ELSE
          LET inner == AdjustConnectors(chargingStation,
                         Len(chargingStation.connectors),
                         [connectors |-> chargingStation.connectors,
                          processed |-> {},
                          siteMaxAmps |-> st.siteMaxAmps,
                          error |-> ""])
              pruned == [chargingStation EXCEPT !.connectors = inner.connectors]
          IN  AdjustStations(excludedChargingStations, i - 1,
                [chargingStations |->
                   IF Len(inner.connectors) = 0
                   THEN RemoveAt(st.chargingStations, i)
                   ELSE [st.chargingStations EXCEPT ![i] = pruned],
                 siteMaxAmps |-> inner.siteMaxAmps,
                 error |-> inner.error])

\* The clamp left out: a negative capacity is kept
EnsurePositive_noClamp(siteMaxAmps) == siteMaxAmps

\* "Ensure always positive"
EnsurePositive(siteMaxAmps) ==
  IF RLess(siteMaxAmps, Zero) THEN Zero ELSE siteMaxAmps

\* adjustSiteLimitation: the site after the call and the error raised, if any
adjustSiteLimitation(siteArea, excludedChargingStations) ==
  LET originalSiteMaxAmps == RDiv(siteArea.maximumPower, R(siteArea.voltage))
      looped == AdjustStations(excludedChargingStations,
                  Len(siteArea.chargingStations),
                  [chargingStations |-> siteArea.chargingStations,
                   siteMaxAmps |-> originalSiteMaxAmps,
                   error |-> ""])
      siteMaxAmps == EnsurePositive(looped.siteMaxAmps)
  IN  [siteArea |->
         [siteArea EXCEPT
            !.chargingStations = looped.chargingStations,
            !.maximumPower =
               IF looped.error = "" /\ siteMaxAmps # originalSiteMaxAmps
               THEN RMul(siteMaxAmps, R(siteArea.voltage))
               ELSE @],
       error |-> looped.error]

\* ------------------------------------------------------------------------
\* Fuse-tree builder
\* ------------------------------------------------------------------------

connectorIsCharging(connector) ==
  connector.status \in {CHARGING, SUSPENDED_EV, SUSPENDED_EVSE, OCCUPIED}

\* getTransactionFromChargingConnector: the session and the error raised
getTransactionFromChargingConnector(chargingStation, connector) ==
  IF connector.currentTransactionID = 0
  THEN [transaction |-> Null, error |-> "NoActiveTransaction"]
  ELSE LET transaction == getTransaction(chargingStation, connector)
       IN  IF transaction = Null
           THEN [transaction |-> Null, error |-> "TransactionNotFound"]
           ELSE [transaction |-> transaction, error |-> ""]

\* Number of connectors of the charge point that are in activity
RECURSIVE NumberOfConnectorsCurrentlyCharging(_, _, _)
NumberOfConnectorsCurrentlyCharging(chargingStation, connectorIDs, k) ==
  IF k > Len(connectorIDs) THEN 0
  ELSE LET connectorOfChargePoint ==
             getConnectorFromID(chargingStation, connectorIDs[k])
           rest == NumberOfConnectorsCurrentlyCharging(chargingStation,
                                                       connectorIDs, k + 1)
       IN  IF connectorOfChargePoint = Null THEN rest
           ELSE IF connectorIsCharging(connectorOfChargePoint) THEN rest + 1
           ELSE rest

\* The amperage of a connector of a charge point after power sharing
SharedAmps(chargingStation, chargePoint, totalAmps) ==
  IF chargePoint.sharePowerToAllConnectors \/ chargePoint.cannotChargeInParallel
  THEN LET numberOfConnectorsCurrentlyCharging ==
             NumberOfConnectorsCurrentlyCharging(chargingStation,
                                                 chargePoint.connectorIDs, 1)
           shared == IF chargePoint.sharePowerToAllConnectors
                     THEN RDiv(totalAmps, R(numberOfConnectorsCurrentlyCharging))
                     ELSE totalAmps
       IN  IF numberOfConnectorsCurrentlyCharging >= 1
           THEN IF chargePoint.cannotChargeInParallel
                   /\ numberOfConnectorsCurrentlyCharging > 1
                THEN Zero
                ELSE shared
           ELSE totalAmps
  ELSE totalAmps

\* The check of the amperage left out: only the phase count is checked
ConnectorAmpsError_noAmpsCheck(connectorAmps) ==
  IF connectorAmps.numberOfConnectedPhase = 0 THEN "CannotGetNumberOfPhases"
  ELSE ""

\* The two final checks of getConnectorNbrOfPhasesAndAmps
ConnectorAmpsError(connectorAmps) ==
  IF connectorAmps.numberOfConnectedPhase = 0 THEN "CannotGetNumberOfPhases"
  ELSE IF connectorAmps.totalAmps = Zero THEN "CannotGetAmperage"
  ELSE ""

\* getConnectorNbrOfPhasesAndAmps: the connector's amps and the error raised
getConnectorNbrOfPhasesAndAmps(chargingStation, connector) ==
  LET chargePoint == getChargePointFromID(chargingStation, connector.chargePointID)
      connectorAmps ==
        IF connector.chargePointID # 0
        THEN [numberOfConnectedPhase |->
                getNumberOfConnectedPhases(chargingStation, chargePoint,
                                           connector.connectorId),
              totalAmps |->
                IF chargePoint = Null THEN Zero
                ELSE SharedAmps(chargingStation, chargePoint,
                       getChargingStationAmperage(chargingStation, chargePoint,
                                                  connector.connectorId))]
        ELSE [numberOfConnectedPhase |-> connector.numberOfConnectedPhase,
              totalAmps |-> R(connector.amperage)]
  IN  [connectorAmps |-> connectorAmps,
       error |-> IF connector.chargePointID # 0 /\ chargePoint = Null
                 THEN "TypeError"
                 ELSE ConnectorAmpsError(connectorAmps)]

\* Grid-side capacity of a leaf of a DC station
GridSideAmpsPerPhase(chargePoint, connectorAmpsPerPhase) ==
  IF chargePoint # Null /\ chargePoint.efficiency > 0
  THEN RDiv(connectorAmpsPerPhase, RDiv(R(chargePoint.efficiency), R(100)))
  ELSE RDiv(connectorAmpsPerPhase,
            R(DC_CHARGING_STATION_DEFAULT_EFFICIENCY_PERCENT))

\* buildChargingStationConnectorFuse: the leaf and the error raised
buildChargingStationConnectorFuse(fuseID, chargingStation, connector) ==
  LET amps == getConnectorNbrOfPhasesAndAmps(chargingStation, connector)
      connectorAmps == amps.connectorAmps
      perPhase == RDiv(connectorAmps.totalAmps,
                       R(connectorAmps.numberOfConnectedPhase))
      connectorAmpsPerPhase ==
        IF getChargingStationCurrentType(chargingStation,
                                         connector.connectorId) = DC
        THEN GridSideAmpsPerPhase(
               getChargePointFromID(chargingStation, connector.chargePointID),
               perPhase)
        ELSE perPhase
      several == connectorAmps.numberOfConnectedPhase > 1
  IN  IF amps.error # "" THEN [fuse |-> Null, error |-> amps.error]
      ELSE [fuse |->
              [type |-> "ChargingStation", id |-> fuseID,
               fusePhase1 |-> connectorAmpsPerPhase,
               fusePhase2 |-> IF several THEN connectorAmpsPerPhase ELSE Zero,
               fusePhase3 |-> IF several THEN connectorAmpsPerPhase ELSE Zero,
               phase1Connected |-> TRUE,
               phase2Connected |-> several,
               phase3Connected |-> several],
            error |-> ""]

\* The sum of phase 1 taken for every phase of the station node
buildChargingStationFuse_phase1Everywhere(fuseID, sumConnectorAmperagePhase1, sumConnectorAmperagePhase2, sumConnectorAmperagePhase3, chargingStationConnectorsFuse) ==
  [type |-> "Fuse", id |-> fuseID,
   fusePhase1 |-> sumConnectorAmperagePhase1,
   fusePhase2 |-> sumConnectorAmperagePhase1,
   fusePhase3 |-> sumConnectorAmperagePhase1,
   phase1Connected |-> TRUE,
   phase2Connected |-> RLess(Zero, sumConnectorAmperagePhase2),
   phase3Connected |-> RLess(Zero, sumConnectorAmperagePhase3),
   children |-> chargingStationConnectorsFuse]

\* buildChargingStationFuse
buildChargingStationFuse(fuseID, sumConnectorAmperagePhase1, sumConnectorAmperagePhase2, sumConnectorAmperagePhase3, chargingStationConnectorsFuse) ==
  [type |-> "Fuse", id |-> fuseID,
   fusePhase1 |-> sumConnectorAmperagePhase1,
   fusePhase2 |-> sumConnectorAmperagePhase2,
   fusePhase3 |-> sumConnectorAmperagePhase3,
   phase1Connected |-> TRUE,
   phase2Connected |-> RLess(Zero, sumConnectorAmperagePhase2),
   phase3Connected |-> RLess(Zero, sumConnectorAmperagePhase3),
   children |-> chargingStationConnectorsFuse]

\* The counter left as it is: the next node takes the same identifier
NextFuseID_same(fuseID) == fuseID

\* fuseID++: the identifier of the next node
NextFuseID(fuseID) == fuseID + 1

\* The root fuse given the aggregate current of the site on every phase
buildRootFuse_aggregate(fuseID, siteArea) ==
  LET siteMaxAmps == RDiv(siteArea.maximumPower, R(siteArea.voltage))
  IN  [type |-> "Fuse", id |-> fuseID,
       fusePhase1 |-> siteMaxAmps, fusePhase2 |-> siteMaxAmps,
       fusePhase3 |-> siteMaxAmps,
       phase1Connected |-> TRUE, phase2Connected |-> TRUE,
       phase3Connected |-> TRUE, children |-> <<>>]

\* The root fuse created by buildOptimizerRequest
buildRootFuse(fuseID, siteArea) ==
  LET siteMaxAmps == RDiv(siteArea.maximumPower, R(siteArea.voltage))
      siteMaxAmpsPerPhase == RDiv(siteMaxAmps, R(siteArea.numberOfPhases))
      several == siteArea.numberOfPhases > 1
  IN  [type |-> "Fuse", id |-> fuseID,
       fusePhase1 |-> siteMaxAmpsPerPhase,
       fusePhase2 |-> IF several THEN siteMaxAmpsPerPhase ELSE Zero,
       fusePhase3 |-> IF several THEN siteMaxAmpsPerPhase ELSE Zero,
       phase1Connected |-> TRUE,
       phase2Connected |-> several,
       phase3Connected |-> several,
       children |-> <<>>]

\* ------------------------------------------------------------------------
\* Car model builder
\* ------------------------------------------------------------------------

\* StaticLimitAmps.MIN_LIMIT_PER_PHASE
MIN_LIMIT_PER_PHASE == 6

RECURSIVE Pow10(_)
Pow10(scale) == IF scale = 0 THEN 1 ELSE 10 * Pow10(scale - 1)

\* Utils.roundTo: Math.round(number * 10^scale) / 10^scale
roundTo(number, scale) ==
  LET scaled == RMul(number, R(Pow10(scale)))
  IN  RNorm((2 * scaled[1] + scaled[2]) \div (2 * scaled[2]), Pow10(scale))

\* Utils.convertWattToAmp(chargingStation, null, connectorId, watts)
convertWattToAmp(chargingStation, connectorId, watts) ==
  RDiv(watts, getChargingStationVoltage(chargingStation))

\* Utils.getChargingStationAmperagePerPhase
getChargingStationAmperagePerPhase(chargingStation, chargePoint, connectorId) ==
  RDiv(getChargingStationAmperage(chargingStation, chargePoint, connectorId),
       R(getNumberOfConnectedPhases(chargingStation, chargePoint, connectorId)))

\* Number of phases flagged in phasesUsed
PhasesFlagged(phasesUsed) ==
  (IF phasesUsed.csPhase1 THEN 1 ELSE 0) + (IF phasesUsed.csPhase2 THEN 1 ELSE 0)
    + (IF phasesUsed.csPhase3 THEN 1 ELSE 0)

\* Utils.getNumberOfUsedPhasesInTransactionInProgress: -1 when not valid
getNumberOfUsedPhasesInTransactionInProgress(chargingStation, transaction) ==
  IF transaction.phasesUsed = Null \/ PhasesFlagged(transaction.phasesUsed) = 0
  THEN -1
  ELSE PhasesFlagged(transaction.phasesUsed)

\* CarStorage.getCar: car 1 declares a converter of 16 A per phase, car 2 a
\* fast charge of 60 kW and a battery of 50 kWh, any other id resolves to nothing
getCar(carID) ==
  CASE carID = 1 -> [converter |-> [amperagePerPhase |-> R(16)],
                     carCatalog |-> [fastChargePowerMax |-> Zero,
                                     batteryCapacityFull |-> Zero]]
    [] carID = 2 -> [converter |-> [amperagePerPhase |-> Zero],
                     carCatalog |-> [fastChargePowerMax |-> R(60),
                                     batteryCapacityFull |-> R(50)]]
    [] OTHER -> Null

\* buildSafeCar
buildSafeCar(fuseID, chargingStation, transaction, currentTimeSeconds) ==
  LET voltage == getChargingStationVoltage(chargingStation)
      maxConnectorAmpsPerPhase ==
        getChargingStationAmperagePerPhase(chargingStation, Null,
                                           transaction.connectorId)
      timestampArrivalInSeconds == transaction.timestamp
  IN  [canLoadPhase1 |-> 1, canLoadPhase2 |-> 1, canLoadPhase3 |-> 1,
       id |-> fuseID,
       timestampArrival |->
         IF currentTimeSeconds > timestampArrivalInSeconds
         THEN timestampArrivalInSeconds
         ELSE IF currentTimeSeconds + 30 > timestampArrivalInSeconds
         THEN currentTimeSeconds ELSE 0,
       maxCapacity |-> RDiv(R(100 * 1000), voltage),
       minLoadingState |-> RMul(RDiv(R(100 * 1000), voltage), <<1, 2>>),
       startCapacity |-> RDiv(R(transaction.currentTotalConsumptionWh), voltage),
       minCurrent |-> R(MIN_LIMIT_PER_PHASE * 3),
       minCurrentPerPhase |-> R(MIN_LIMIT_PER_PHASE),
       maxCurrent |-> RMul(maxConnectorAmpsPerPhase, R(3)),
       maxCurrentPerPhase |-> maxConnectorAmpsPerPhase,
       name |-> <<transaction.chargeBoxID, transaction.connectorId>>]

\* buildCar: the overrides of the provided car
overrideCarWithProvidedCar(chargingStation, transaction, customCar) ==
  LET voltage == getChargingStationVoltage(chargingStation)
      transactionCar == getCar(transaction.carID)
      currentType == getChargingStationCurrentType(chargingStation,
                                                   transaction.connectorId)
      phases == getNumberOfConnectedPhases(chargingStation, Null,
                                           transaction.connectorId)
      maxDCCurrent ==
        convertWattToAmp(chargingStation, transaction.connectorId,
          RMul(transactionCar.carCatalog.fastChargePowerMax, R(1000)))
      limited ==
        IF currentType = AC /\ phases = 3
        THEN IF transactionCar # Null
                /\ RLess(Zero, transactionCar.converter.amperagePerPhase)
             THEN [customCar EXCEPT
                     !.maxCurrentPerPhase = transactionCar.converter.amperagePerPhase,
                     !.maxCurrent = RMul(transactionCar.converter.amperagePerPhase, R(3))]
             ELSE customCar
        ELSE IF currentType = DC
        THEN IF transactionCar # Null
                /\ RLess(Zero, transactionCar.carCatalog.fastChargePowerMax)
             THEN [customCar EXCEPT
                     !.maxCurrentPerPhase = roundTo(RDiv(maxDCCurrent, R(3)), 3),
                     !.maxCurrent = RMul(roundTo(RDiv(maxDCCurrent, R(3)), 3), R(3))]
             ELSE customCar
        ELSE customCar
  IN  IF transaction.carID = 0 THEN customCar
      ELSE IF transactionCar # Null
              /\ RLess(Zero, transactionCar.carCatalog.batteryCapacityFull)
      THEN [limited EXCEPT
              !.maxCapacity =
                 RDiv(RMul(transactionCar.carCatalog.batteryCapacityFull, R(1000)), voltage),
              !.minLoadingState =
                 RMul(RDiv(RMul(transactionCar.carCatalog.batteryCapacityFull, R(1000)), voltage),
                      <<1, 2>>)]
      ELSE limited

\* getCurrentSapSmartChargingProfileLimit: the limit of the current slot of a
\* profile, -1 past its last period, nothing before its start
getCurrentSapSmartChargingProfileLimit(currentProfile) ==
  LET minutes == (now - currentProfile.profile.chargingSchedule.startSchedule) \div 60
      currentSlot == minutes \div 15
      periods == currentProfile.profile.chargingSchedule.chargingSchedulePeriod
  IN  IF currentSlot >= Len(periods) THEN R(-1)
      ELSE IF currentSlot < 0 THEN Null
      ELSE periods[currentSlot + 1].limit

\* The profiles of this.currentChargingProfiles issued for the session
ProfilesOfTransaction(chargingStation, transaction) ==
  LET Matches(p) ==
        /\ p.profile.transactionId = transaction.id
        /\ p.chargingStationID = chargingStation.id
        /\ p.connectorID = transaction.connectorId
  IN  SelectSeq(currentChargingProfiles.result, Matches)

\* 1 + buffer / 100
BufferFactor(limitBuffer) == RAdd(R(1), RDiv(R(limitBuffer), R(100)))

\* The limit lowered by the buffer, plus 20 % of the gap to the limit
WidenedThreshold(limit, limitBuffer) ==
  LET threshold == RDiv(limit, BufferFactor(limitBuffer))
  IN  RAdd(threshold, RMul(RSub(limit, threshold), <<1, 5>>))

\* checkIfCarIsIncreasingConsumption, DC: the comparison of the previous
\* limit with the maximum of the car
LimitBelowCarMaxDC(currentLimit, car) ==
  RLess(currentLimit, car.maxCurrentPerPhase)

\* checkIfCarIsIncreasingConsumption
checkIfCarIsIncreasingConsumption(chargingStation, transaction, currentType, car, numberOfPhasesInProgress) ==
  LET currentProfile == ProfilesOfTransaction(chargingStation, transaction)
      currentLimit == getCurrentSapSmartChargingProfileLimit(currentProfile[1])
      numberOfPhasesChargingStation ==
        getNumberOfConnectedPhases(chargingStation, Null, transaction.connectorId)
      currentLimitPerPhase == RDiv(currentLimit, R(numberOfPhasesChargingStation))
  IN  IF Len(currentProfile) # 1 THEN FALSE
      ELSE IF currentLimit = Null THEN FALSE
      ELSE IF RLess(currentLimit, R(1)) THEN TRUE
      ELSE IF currentType = AC
      THEN /\ RLess(WidenedThreshold(currentLimitPerPhase, setting.limitBufferAC),
                    RDiv(transaction.currentInstantAmps, R(numberOfPhasesInProgress)))
           /\ RLess(currentLimitPerPhase, car.maxCurrentPerPhase)
      ELSE /\ RLess(WidenedThreshold(currentLimit, setting.limitBufferDC),
                    convertWattToAmp(chargingStation, transaction.connectorId,
                                     transaction.currentInstantWattsDC))
           /\ LimitBelowCarMaxDC(currentLimit, car)

\* The draw per measured phase, without the buffer
StickyLimitAC_noBuffer(transaction, numberOfPhasesInProgress) ==
  roundTo(RDiv(transaction.currentInstantAmps, R(numberOfPhasesInProgress)), 3)

\* overrideCarWithRuntimeData, AC: the draw per measured phase plus the buffer
StickyLimitAC(transaction, numberOfPhasesInProgress) ==
  roundTo(RMul(RDiv(transaction.currentInstantAmps, R(numberOfPhasesInProgress)),
               BufferFactor(setting.limitBufferAC)), 3)

\* overrideCarWithRuntimeData, DC: the draw over 3 phases plus the buffer
StickyLimitDC(chargingStation, transaction) ==
  roundTo(RMul(RDiv(convertWattToAmp(chargingStation, transaction.connectorId,
                                     transaction.currentInstantWattsDC), R(3)),
               BufferFactor(setting.limitBufferDC)), 3)

\* The previous profiles read and the clamp applied whatever the setting
StickyLimitationEnabled_always == TRUE

\* this.setting.stickyLimitation
StickyLimitationEnabled == setting.stickyLimitation

\* overrideCarWithRuntimeData
overrideCarWithRuntimeData(chargingStation, transaction, car) ==
  LET numberOfPhasesInProgress ==
        getNumberOfUsedPhasesInTransactionInProgress(chargingStation, transaction)
      sticky ==
        IF StickyLimitationEnabled
           /\ ~checkIfCarIsIncreasingConsumption(chargingStation, transaction, AC,
                                                 car, numberOfPhasesInProgress)
        THEN [car EXCEPT !.maxCurrentPerPhase =
                IF RLess(Zero, transaction.currentInstantAmps)
                THEN StickyLimitAC(transaction, numberOfPhasesInProgress)
                ELSE car.minCurrentPerPhase]
        ELSE car
  IN  IF transaction.phasesUsed # Null
      THEN IF numberOfPhasesInProgress # -1
           THEN [sticky EXCEPT
                   !.canLoadPhase1 = IF transaction.phasesUsed.csPhase1 THEN 1 ELSE 0,
                   !.canLoadPhase2 = IF transaction.phasesUsed.csPhase2 THEN 1 ELSE 0,
                   !.canLoadPhase3 = IF transaction.phasesUsed.csPhase3 THEN 1 ELSE 0,
                   !.minCurrent = RMul(sticky.minCurrentPerPhase,
                                       R(numberOfPhasesInProgress)),
                   !.maxCurrent = RMul(sticky.maxCurrentPerPhase,
                                       R(numberOfPhasesInProgress))]
           ELSE car
      ELSE IF /\ getChargingStationCurrentType(chargingStation,
                                               transaction.connectorId) = DC
              /\ RLess(Zero, transaction.currentInstantWattsDC)
              /\ StickyLimitationEnabled
      THEN IF ~checkIfCarIsIncreasingConsumption(chargingStation, transaction,
                                                 DC, car, 0)
           THEN [car EXCEPT
                   !.maxCurrentPerPhase = StickyLimitDC(chargingStation, transaction),
                   !.maxCurrent = RMul(StickyLimitDC(chargingStation, transaction), R(3))]
           ELSE car
      ELSE car

\* buildCar, DC: the maximum per phase of the car as drawn at the grid
CarGridSideAmpsPerPhase(chargePoint, maxCurrentPerPhase) ==
  IF chargePoint # Null /\ chargePoint.efficiency > 0
  THEN RDiv(maxCurrentPerPhase, RDiv(R(chargePoint.efficiency), R(100)))
  ELSE RDiv(maxCurrentPerPhase,
            RDiv(R(DC_CHARGING_STATION_DEFAULT_EFFICIENCY_PERCENT), R(100)))

\* buildCar: the car of a session, identified by the id of its leaf
buildCar(fuseID, chargingStation, transaction, currentTimeSeconds) ==
  LET customCar ==
        overrideCarWithRuntimeData(chargingStation, transaction,
          overrideCarWithProvidedCar(chargingStation, transaction,
            buildSafeCar(fuseID, chargingStation, transaction, currentTimeSeconds)))
      connector == getConnectorFromID(chargingStation, transaction.connectorId)
      chargePoint == IF connector = Null THEN Null
                     ELSE getChargePointFromID(chargingStation, connector.chargePointID)
      atGrid == CarGridSideAmpsPerPhase(chargePoint, customCar.maxCurrentPerPhase)
  IN  IF getChargingStationCurrentType(chargingStation, transaction.connectorId) = DC
      THEN [customCar EXCEPT !.maxCurrentPerPhase = atGrid,
                             !.maxCurrent = RMul(atGrid, R(3))]
      ELSE customCar

\* The assignment pushed with the identifier of the next node instead
buildCarConnectorAssignment_nextID(fuseID) ==
  [carID |-> fuseID, chargingStationID |-> fuseID + 1]

\* The entry of carConnectorAssignments pushed for a connector
buildCarConnectorAssignment(fuseID) ==
  [carID |-> fuseID, chargingStationID |-> fuseID]

\* ------------------------------------------------------------------------
\* Optimizer call
\* ------------------------------------------------------------------------

\* Outcomes of the post: an answer with a success status, an answer with
\* another status, no answer
PostOutcomes == {"success", "nonSuccess", "noAnswer"}

\* axiosInstance.post rejects unless the answer has a success status
PostRejects(outcome) == outcome # "success"

\* The post issued again after a rejection
OnPostRejected_retry == "checkCars"

\* Position of the cycle after a rejected post: the rejection is not caught
OnPostRejected == "error"

\* ------------------------------------------------------------------------
\* Plan translator
\* ------------------------------------------------------------------------

\* ChargingStationStorage.getChargingStation: the station of that id, or nothing
getChargingStation(stations, chargingStationID) ==
  LET found == {i \in 1..Len(stations) : stations[i].id = chargingStationID}
  IN  IF found = {} THEN Null
      ELSE stations[CHOOSE i \in found : \A k \in found : i <= k]

\* Values of parseInt: NaN on a parameter that is not set, or a number
NaN == [isNaN |-> TRUE, value |-> 0]

Number(n) == [isNaN |-> FALSE, value |-> n]

\* Seconds of a slot of the plan
SlotSeconds == 15 * 60

\* Length of a schedule when ChargingScheduleMaxPeriods is not a number
DefaultScheduleMaxPeriods == 20

\* Periods that are emitted whatever the value of their slot
MinSchedulePeriods == 3

\* The response-side conversion with the efficiency left out
calculateCarConsumption_noEfficiency(chargingStation, connector, numberOfConnectedPhase, currentLimit) ==
  roundTo(RMul(currentLimit, R(numberOfConnectedPhase)), 3)

\* calculateCarConsumption
calculateCarConsumption(chargingStation, connector, numberOfConnectedPhase, currentLimit) ==
  LET chargePoint == getChargePointFromID(chargingStation, connector.chargePointID)
  IN  IF getChargingStationCurrentType(chargingStation, connector.connectorId) = DC
      THEN IF chargePoint # Null /\ chargePoint.efficiency > 0
           THEN roundTo(RMul(RDiv(RMul(currentLimit, R(chargePoint.efficiency)),
                                  R(100)),
                             R(numberOfConnectedPhase)), 3)
           ELSE roundTo(RMul(RMul(currentLimit,
                                  R(DC_CHARGING_STATION_DEFAULT_EFFICIENCY_PERCENT)),
                             R(numberOfConnectedPhase)), 3)
      ELSE roundTo(RMul(currentLimit, R(numberOfConnectedPhase)), 3)

\* The slot after the last one a schedule may reach
LastSlotBound_default(firstSlot, maxScheduleLength) ==
  firstSlot + DefaultScheduleMaxPeriods

\* The slot after the last one a schedule may reach
LastSlotBound(firstSlot, maxScheduleLength) ==
  IF ~maxScheduleLength.isNaN THEN firstSlot + maxScheduleLength.value
  ELSE firstSlot + DefaultScheduleMaxPeriods

\* The slot is emitted whatever its value
KeepEmitting_always(value, emitted) == TRUE

\* The slot is emitted when its value is > 0 only
KeepEmitting_positiveOnly(value, emitted) == RLess(Zero, value)

\* The slot is emitted: its value is > 0 or fewer than 3 periods were emitted
KeepEmitting(value, emitted) ==
  RLess(Zero, value) \/ emitted < MinSchedulePeriods

\* Start offset of the period of index currentTimeSlotMins
StartPeriod(currentTimeSlotMins) == currentTimeSlotMins * SlotSeconds

\* The loop over the slots of the plan, from slot i (counted from 0) on
RECURSIVE SchedulePeriods(_, _, _, _, _, _, _)
SchedulePeriods(chargingStation, connector, numberOfConnectedPhase, currentPlan, i, lastSlotBound, periods) ==
  IF /\ i < lastSlotBound
     /\ i < Len(currentPlan)
     /\ KeepEmitting(currentPlan[i + 1], Len(periods))
  THEN SchedulePeriods(chargingStation, connector, numberOfConnectedPhase,
         currentPlan, i + 1, lastSlotBound,
         Append(periods,
           [startPeriod |-> StartPeriod(Len(periods)),
            limit |-> calculateCarConsumption(chargingStation, connector,
                        numberOfConnectedPhase, currentPlan[i + 1])]))
  ELSE periods

\* buildChargingProfilesFromOptimizerResponse, from car k of the response on.
\* st = [chargingProfiles, error]
RECURSIVE TranslateCars(_, _, _, _, _)
TranslateCars(stations, optimizerResult, currentDurationFromMidnightMins, k, st) ==
  IF k > Len(optimizerResult.cars) \/ st.error # "" THEN st
  ELSE
    LET car == optimizerResult.cars[k]
        chargingStationID == car.name[1]
        connectorID == car.name[2]
        chargingStation == getChargingStation(stations, chargingStationID)
        connector == getConnectorFromID(chargingStation, connectorID)
        chargePoint == getChargePointFromID(chargingStation, connector.chargePointID)
        numberOfConnectedPhase ==
          IF connector.chargePointID # 0
          THEN getNumberOfConnectedPhases(chargingStation, chargePoint,
                                          connector.connectorId)
          ELSE connector.numberOfConnectedPhase
        firstSlot == currentDurationFromMidnightMins \div 15
        chargingSchedulePeriod ==
          SchedulePeriods(chargingStation, connector, numberOfConnectedPhase,
                          car.currentPlan, firstSlot,
                          LastSlotBound(firstSlot, maxPeriods), <<>>)
    IN  IF chargingStation = Null
        THEN [st EXCEPT !.error = "ChargingStationNotFound"]
        ELSE IF connector = Null
        THEN \* connector.chargePointID on undefined
             [st EXCEPT !.error = "TypeError"]
        ELSE IF connector.chargePointID = 0 \/ chargePoint = Null
        THEN \* chargePoint.chargePointID on undefined
             [st EXCEPT !.error = "TypeError"]
        ELSE TranslateCars(stations, optimizerResult,
               currentDurationFromMidnightMins, k + 1,
               [st EXCEPT !.chargingProfiles = Append(@,
                  [chargingStationID |-> chargingStationID,
                   connectorID |-> connectorID,
                   chargePointID |-> chargePoint.chargePointID,
                   profile |->
                     [transactionId |-> connector.currentTransactionID,
                      chargingSchedule |->
                        [startSchedule |-> (now \div SlotSeconds) * SlotSeconds,
                         duration |-> StartPeriod(Len(chargingSchedulePeriod)),
                         chargingSchedulePeriod |-> chargingSchedulePeriod]]])])

buildChargingProfilesFromOptimizerResponse(stations, optimizerResult, currentDurationFromMidnightMins) ==
  TranslateCars(stations, optimizerResult, currentDurationFromMidnightMins, 1,
                [chargingProfiles |-> <<>>, error |-> ""])

\* ------------------------------------------------------------------------
\* Surroundings of a cycle: clock, sessions, profiles, plans
\* ------------------------------------------------------------------------

\* Slots of a plan of the optimizer
PlanLength == 96

\* 10:00:17, in slot 40
Morning == 40 * SlotSeconds + 17

\* Clock readings: after midnight, in the morning, one second before the end
\* of a slot, in the last slots of the plan
Clocks ==
  {17, Morning, 40 * SlotSeconds + 899, (PlanLength - 2) * SlotSeconds + 17,
   (PlanLength - 1) * SlotSeconds + 899}

\* Seconds of the day the plan covers: the clock restarts from 0 at midnight
DaySeconds == PlanLength * SlotSeconds

\* Seconds the exchange with the optimizer may take
CallDurations == {0, 2}

\* A session without vehicle and without live data, started at 08:20:00
FreshSession ==
  [timestamp |-> 30000, currentTotalConsumptionWh |-> 5000, carID |-> 0,
   phasesUsed |-> Null, currentInstantAmps |-> Zero,
   currentInstantWattsDC |-> Zero]

PhasesUsed(p1, p2, p3) == [csPhase1 |-> p1, csPhase2 |-> p2, csPhase3 |-> p3]

\* Start of a session, in seconds from the local midnight of the cycle: the
\* evening before, within the 30 seconds after the cycle starts, later than that
StartedYesterday == 0 - 3600

StartedJustNow == Morning + 10

StartedLater == Morning + 100

\* Live data of a session: the vehicle, the measured phases and the draw in
\* amps of an AC session, the vehicle and the draw in watts of a DC session, a
\* vehicle at the end of its charge drawing 10 A on three phases, and sessions
\* that did not start earlier in the day of the cycle
Sessions ==
  {[FreshSession EXCEPT !.carID = carID, !.phasesUsed = phasesUsed,
                        !.currentInstantAmps = R(amps)] :
     carID \in {0, 1},
     phasesUsed \in {Null, PhasesUsed(TRUE, FALSE, FALSE),
                     PhasesUsed(TRUE, TRUE, TRUE),
                     PhasesUsed(FALSE, FALSE, FALSE)},
     amps \in {0, 20, 94}}
  \cup {[FreshSession EXCEPT !.carID = carID,
                             !.currentInstantWattsDC = R(watts)] :
          carID \in {0, 2}, watts \in {0, 39200}}
  \cup {[FreshSession EXCEPT !.phasesUsed = PhasesUsed(TRUE, TRUE, TRUE),
                             !.currentInstantAmps = R(10)]}
  \cup {[FreshSession EXCEPT !.timestamp = timestamp] :
          timestamp \in {StartedYesterday, StartedJustNow, StartedLater}}

\* Settings of the integration
Settings ==
  {[stickyLimitation |-> sticky, limitBufferAC |-> buffer,
    limitBufferDC |-> buffer] : sticky \in BOOLEAN, buffer \in {0, 10}}
  \ {[stickyLimitation |-> FALSE, limitBufferAC |-> 10, limitBufferDC |-> 10]}

\* A profile issued for connector 1 of station 1, of 3 periods of one limit
IssuedProfile(startSchedule, limit) ==
  [chargingStationID |-> 1, connectorID |-> 1, chargePointID |-> 1,
   profile |->
     [transactionId |-> Tx(1, 1),
      chargingSchedule |->
        [startSchedule |-> startSchedule, duration |-> 3 * SlotSeconds,
         chargingSchedulePeriod |->
           [k \in 1..3 |-> [startPeriod |-> (k - 1) * SlotSeconds,
                            limit |-> R(limit)]]]]]

\* Profiles left in the storage by former cycles: none, one in force with a
\* limit of 96, 100 or 120 A, one that has expired, two for the same session
ProfileStorages ==
  {<<>>, <<IssuedProfile(40 * SlotSeconds, 96)>>,
   <<IssuedProfile(40 * SlotSeconds, 100)>>,
   <<IssuedProfile(40 * SlotSeconds, 120)>>,
   <<IssuedProfile(0, 96)>>,
   <<IssuedProfile(40 * SlotSeconds, 96), IssuedProfile(40 * SlotSeconds, 96)>>}

PlanKinds == {"full", "zero", "fraction", "two", "five", "gap"}

\* The plan of each kind: a value per slot, slots counted from 0
Plan(kind) ==
  [k \in 1..PlanLength |->
     CASE kind = "full" -> R(10)
       [] kind = "zero" -> Zero
       [] kind = "fraction" -> <<21333, 2000>>
       [] kind = "two" -> IF k - 1 < 42 THEN R(10) ELSE Zero
       [] kind = "five" -> IF k - 1 < 45 THEN R(16) ELSE Zero
       [] kind = "gap" -> IF (k - 1) % 4 = 0 THEN Zero ELSE R(10)]

\* Stations of the sites on which the sessions and the plans are varied
RuntimeStationKinds ==
  {"cpPlain", "ac120", "dc90", "dcDefault", "excluded230"}

\* ------------------------------------------------------------------------
\* State of one translation cycle
\* ------------------------------------------------------------------------

VARIABLES
  pc,                       \* position of the cycle in buildChargingProfiles
  storage,                  \* stations of the site in ChargingStationStorage
  siteArea,                 \* the site object handed to buildChargingProfiles
  siteArea0,                \* the site object as it was at the start of the cycle
  excludedChargingStations, \* argument of buildChargingProfiles
  fuseID,                   \* counter of node identifiers
  rootFuse,                 \* root of the fuse tree
  stationIdx,               \* position of the loop over the stations
  connIdx,                  \* position of the loop over the connectors
  sums,                     \* sumConnectorAmperagePhase1..3
  connectorsFuse,           \* chargingStationConnectorsFuse
  cars,                     \* cars of the request
  carAssignments,           \* carConnectorAssignments of the request
  constructed,              \* identifiers of the nodes in construction order
  request,                  \* the request returned by buildOptimizerRequest
  optimizerCalls,           \* number of posts to the optimizer
  response,                 \* data of the optimizer's answer
  result,                   \* value returned by buildChargingProfiles
  error,                    \* error raised by the cycle ("" when none)
  currentDurationFromMidnightSeconds \* captured by buildChargingProfiles

\* What the cycle reads and never writes
envVars == <<now, setting, session, profileStorage, maxPeriods, optimizerPlan,
             previousCycle>>

vars == <<pc, storage, siteArea, siteArea0, excludedChargingStations, fuseID,
          rootFuse, stationIdx, connIdx, sums, connectorsFuse, cars,
          carAssignments, constructed, request, optimizerCalls, response,
          result, error, envVars, currentDurationFromMidnightSeconds,
          currentChargingProfiles>>

buildVars == <<fuseID, rootFuse, stationIdx, connIdx, sums, connectorsFuse,
               cars, carAssignments, constructed, request>>

\* Calls of buildChargingProfiles on one site object
MaxCycles == 2

\* No cycle ran on the site object yet
NoCycle == [number |-> 0, excludedChargingStations |-> {}, rootFuse |-> Null]

\* The state before the cycle starts, whatever the site and its surroundings
InitCycle ==
  /\ pc = "idle"
  /\ previousCycle = NoCycle
  /\ siteArea0 = siteArea
  /\ excludedChargingStations = {}
  /\ fuseID = 0
  /\ rootFuse = Null
  /\ stationIdx = 0
  /\ connIdx = 0
  /\ sums = <<Zero, Zero, Zero>>
  /\ connectorsFuse = <<>>
  /\ cars = <<>>
  /\ carAssignments = <<>>
  /\ constructed = <<>>
  /\ request = Null
  /\ optimizerCalls = 0
  /\ response = Null
  /\ result = Null
  /\ error = ""
  /\ currentDurationFromMidnightSeconds = 0
  /\ currentChargingProfiles = NeverRead

\* Every site and station list, sessions without live data, sticky limitation
\* disabled, at 10:00:17 and with a plan of 10 A on every slot
Init ==
  /\ storage \in StationLists
  /\ siteArea \in SiteAreas
  /\ InitCycle
  /\ now = Morning
  /\ setting = [stickyLimitation |-> FALSE, limitBufferAC |-> 0,
                limitBufferDC |-> 0]
  /\ session = FreshSession
  /\ profileStorage = <<>>
  /\ maxPeriods = NaN
  /\ optimizerPlan = "full"

\* The cycle ends by raising err
Raise(err) ==
  /\ pc' = "error"
  /\ error' = err

\* buildChargingProfiles, up to the call of buildOptimizerRequest: the stations
\* of the site are read from the storage into the site object
StartCycle ==
  /\ pc = "idle"
  /\ \E excluded \in {{}, {1}} : excludedChargingStations' = excluded
  /\ siteArea' = [siteArea EXCEPT !.chargingStations = storage]
  /\ siteArea0' = siteArea'
  /\ currentDurationFromMidnightSeconds' = now
  /\ pc' = "getChargingProfiles"
  /\ UNCHANGED <<envVars, currentChargingProfiles, storage, buildVars,
                 optimizerCalls, response, result, error>>

\* buildOptimizerRequest: with sticky limitation the profiles of the stations
\* of the site are read into this.currentChargingProfiles
GetChargingProfiles ==
  /\ pc = "getChargingProfiles"
  /\ currentChargingProfiles' =
       IF StickyLimitationEnabled
       THEN LET OfSite(p) == \E i \in 1..Len(siteArea.chargingStations) :
                               siteArea.chargingStations[i].id = p.chargingStationID
            IN  [undefined |-> FALSE,
                 result |-> SelectSeq(profileStorage, OfSite)]
       ELSE currentChargingProfiles
  /\ pc' = "checkSiteArea"
  /\ UNCHANGED <<envVars, currentDurationFromMidnightSeconds, storage,
                 siteArea, siteArea0, excludedChargingStations, buildVars,
                 optimizerCalls, response, result, error>>

\* buildOptimizerRequest: checkIfSiteAreaIsValid
CheckSiteArea ==
  /\ pc = "checkSiteArea"
  /\ LET err == checkIfSiteAreaIsValid(siteArea)
     IN  IF err # "" THEN Raise(err)
         ELSE pc' = "adjustSiteLimitation" /\ UNCHANGED error
  /\ UNCHANGED <<envVars, currentDurationFromMidnightSeconds,
                 currentChargingProfiles, storage, siteArea, siteArea0, excludedChargingStations,
                 buildVars, optimizerCalls, response, result>>

\* buildOptimizerRequest: adjustSiteLimitation
AdjustSiteLimitation ==
  /\ pc = "adjustSiteLimitation"
  /\ LET adjusted == adjustSiteLimitation(siteArea, excludedChargingStations)
     IN  /\ siteArea' = adjusted.siteArea
         /\ IF adjusted.error # "" THEN Raise(adjusted.error)
            ELSE pc' = "rootFuse" /\ UNCHANGED error
  /\ UNCHANGED <<envVars, currentDurationFromMidnightSeconds,
                 currentChargingProfiles, storage, siteArea0, excludedChargingStations, buildVars,
                 optimizerCalls, response, result>>

\* buildOptimizerRequest: the root fuse takes the first identifier
CreateRootFuse ==
  /\ pc = "rootFuse"
  /\ rootFuse' = buildRootFuse(fuseID, siteArea)
  /\ constructed' = Append(constructed, rootFuse'.id)
  /\ fuseID' = NextFuseID(fuseID)
  /\ stationIdx' = 1
  /\ connIdx' = 1
  /\ sums' = <<Zero, Zero, Zero>>
  /\ connectorsFuse' = <<>>
  /\ pc' = "stations"
  /\ UNCHANGED <<envVars, currentDurationFromMidnightSeconds,
                 currentChargingProfiles, storage, siteArea, siteArea0, excludedChargingStations, cars,
                 carAssignments, request, optimizerCalls, response, result,
                 error>>

\* buildOptimizerRequest: one turn of the loop over the connectors of a station
ProcessConnector ==
  /\ pc = "stations"
  /\ stationIdx <= Len(siteArea.chargingStations)
  /\ connIdx <= Len(siteArea.chargingStations[stationIdx].connectors)
  /\ LET chargingStation == siteArea.chargingStations[stationIdx]
         connector == chargingStation.connectors[connIdx]
         got == getTransactionFromChargingConnector(chargingStation, connector)
         built == buildChargingStationConnectorFuse(fuseID, chargingStation,
                                                    connector)
     IN  IF got.error # ""
         THEN Raise(got.error)
              /\ UNCHANGED <<fuseID, connIdx, sums, connectorsFuse, cars,
                             carAssignments, constructed>>
         ELSE IF built.error # ""
         THEN Raise(built.error)
              /\ UNCHANGED <<fuseID, connIdx, sums, connectorsFuse, cars,
                             carAssignments, constructed>>
         ELSE /\ connectorsFuse' = Append(connectorsFuse, built.fuse)
              /\ sums' = <<RAdd(sums[1], built.fuse.fusePhase1),
                           RAdd(sums[2], built.fuse.fusePhase2),
                           RAdd(sums[3], built.fuse.fusePhase3)>>
              /\ cars' = Append(cars, buildCar(fuseID, chargingStation,
                                               got.transaction,
                                               currentDurationFromMidnightSeconds))
              /\ carAssignments' = Append(carAssignments,
                   buildCarConnectorAssignment(fuseID))
              /\ constructed' = Append(constructed, built.fuse.id)
              /\ fuseID' = NextFuseID(fuseID)
              /\ connIdx' = connIdx + 1
              /\ UNCHANGED <<pc, error>>
  /\ UNCHANGED <<envVars, currentDurationFromMidnightSeconds,
                 currentChargingProfiles, storage, siteArea, siteArea0, excludedChargingStations,
                 rootFuse, stationIdx, request, optimizerCalls, response,
                 result>>

\* buildOptimizerRequest: end of a station, its fuse is built and pushed
CloseStation ==
  /\ pc = "stations"
  /\ stationIdx <= Len(siteArea.chargingStations)
  /\ connIdx > Len(siteArea.chargingStations[stationIdx].connectors)
  /\ LET chargingStationFuse ==
           buildChargingStationFuse(fuseID, sums[1], sums[2], sums[3],
                                    connectorsFuse)
     IN  /\ rootFuse' = IF Len(chargingStationFuse.children) > 0
                        THEN [rootFuse EXCEPT
                                !.children = Append(@, chargingStationFuse)]
                        ELSE rootFuse
         /\ constructed' = Append(constructed, chargingStationFuse.id)
  /\ fuseID' = NextFuseID(fuseID)
  /\ stationIdx' = stationIdx + 1
  /\ connIdx' = 1
  /\ sums' = <<Zero, Zero, Zero>>
  /\ connectorsFuse' = <<>>
  /\ UNCHANGED <<envVars, currentDurationFromMidnightSeconds,
                 currentChargingProfiles, pc, storage, siteArea, siteArea0, excludedChargingStations,
                 cars, carAssignments, request, optimizerCalls, response,
                 result, error>>

\* buildOptimizerRequest: the request is assembled and returned
AssembleRequest ==
  /\ pc = "stations"
  /\ stationIdx > Len(siteArea.chargingStations)
  /\ request' = [rootFuse |-> rootFuse, cars |-> cars,
                 carAssignments |-> carAssignments]
  /\ pc' = "buildOptimizerUrl"
  /\ UNCHANGED <<envVars, currentDurationFromMidnightSeconds,
                 currentChargingProfiles, storage, siteArea, siteArea0, excludedChargingStations,
                 fuseID, rootFuse, stationIdx, connIdx, sums, connectorsFuse,
                 cars, carAssignments, constructed, optimizerCalls, response,
                 result, error>>

\* buildChargingProfiles: buildOptimizerUrl, on complete or incomplete settings
BuildOptimizerUrl ==
  /\ pc = "buildOptimizerUrl"
  /\ \E configured \in BOOLEAN :
       IF configured THEN pc' = "checkCars" /\ UNCHANGED error
       ELSE Raise("ConfigurationError")
  /\ UNCHANGED <<envVars, currentDurationFromMidnightSeconds,
                 currentChargingProfiles, storage, siteArea, siteArea0, excludedChargingStations,
                 buildVars, optimizerCalls, response, result>>

\* buildChargingProfiles: no car connected, bare return
NoCarConnected ==
  /\ pc = "checkCars"
  /\ Len(request.cars) = 0
  /\ result' = Undefined
  /\ pc' = "done"
  /\ UNCHANGED <<envVars, currentDurationFromMidnightSeconds,
                 currentChargingProfiles, storage, siteArea, siteArea0, excludedChargingStations,
                 buildVars, optimizerCalls, response, error>>

\* buildChargingProfiles: the post to the optimizer, answered or failing
CallOptimizer ==
  /\ pc = "checkCars"
  /\ Len(request.cars) > 0
  /\ optimizerCalls' = optimizerCalls + 1
  /\ \E elapsed \in CallDurations : now' = (now + elapsed) % DaySeconds
  /\ \E outcome \in PostOutcomes :
       IF ~PostRejects(outcome)
       THEN /\ response' = [cars |-> [k \in 1..Len(request.cars) |->
                                        [name |-> request.cars[k].name,
                                         currentPlan |-> Plan(optimizerPlan)]]]
            /\ pc' = "translate"
            /\ UNCHANGED error
       ELSE /\ pc' = OnPostRejected
            /\ error' = IF OnPostRejected = "error" THEN "UpstreamError"
                        ELSE error
            /\ UNCHANGED response
  /\ UNCHANGED <<setting, session, profileStorage, maxPeriods, optimizerPlan,
                 previousCycle, currentDurationFromMidnightSeconds,
                 currentChargingProfiles, storage, siteArea, siteArea0, excludedChargingStations,
                 buildVars, result>>

\* buildChargingProfiles: the answer is translated and returned
TranslateResponse ==
  /\ pc = "translate"
  /\ LET translated ==
           buildChargingProfilesFromOptimizerResponse(storage, response,
             currentDurationFromMidnightSeconds \div 60)
     IN  IF translated.error # ""
         THEN Raise(translated.error) /\ UNCHANGED result
         ELSE /\ result' = translated.chargingProfiles
              /\ pc' = "done"
              /\ UNCHANGED error
  /\ UNCHANGED <<envVars, currentDurationFromMidnightSeconds,
                 currentChargingProfiles, storage, siteArea, siteArea0, excludedChargingStations,
                 buildVars, optimizerCalls, response>>

\* The caller runs buildChargingProfiles again on the same site object, once
\* the former cycle has returned or thrown: the locals of the cycle are new, the
\* site object and the fields of the integration are as the former cycle left
\* them
RunAgain ==
  /\ pc \in {"done", "error"}
  /\ previousCycle.number + 1 < MaxCycles
  /\ previousCycle' = [number |-> previousCycle.number + 1,
                       excludedChargingStations |-> excludedChargingStations,
                       rootFuse |-> rootFuse]
  /\ pc' = "idle"
  /\ excludedChargingStations' = {}
  /\ fuseID' = 0
  /\ rootFuse' = Null
  /\ stationIdx' = 0
  /\ connIdx' = 0
  /\ sums' = <<Zero, Zero, Zero>>
  /\ connectorsFuse' = <<>>
  /\ cars' = <<>>
  /\ carAssignments' = <<>>
  /\ constructed' = <<>>
  /\ request' = Null
  /\ optimizerCalls' = 0
  /\ response' = Null
  /\ result' = Null
  /\ error' = ""
  /\ currentDurationFromMidnightSeconds' = 0
  /\ UNCHANGED <<now, setting, session, profileStorage, maxPeriods,
                 optimizerPlan, currentChargingProfiles, storage, siteArea,
                 siteArea0>>

Next ==
  \/ StartCycle
  \/ GetChargingProfiles
  \/ CheckSiteArea
  \/ AdjustSiteLimitation
  \/ CreateRootFuse
  \/ ProcessConnector
  \/ CloseStation
  \/ AssembleRequest
  \/ BuildOptimizerUrl
  \/ NoCarConnected
  \/ CallOptimizer
  \/ TranslateResponse

Spec == Init /\ [][Next]_vars

\* A site of one station whose sessions, settings and former profiles vary
InitCars ==
  /\ \E kind \in RuntimeStationKinds : storage = <<MkStation(1, kind)>>
  /\ siteArea = [maximumPower |-> R(100000), voltage |-> 230,
                 numberOfPhases |-> 3, chargingStations |-> <<>>]
  /\ InitCycle
  /\ now = Morning
  /\ setting \in Settings
  /\ session \in Sessions
  /\ profileStorage \in ProfileStorages
  /\ maxPeriods = NaN
  /\ optimizerPlan = "full"

SpecCars == InitCars /\ [][Next]_vars

\* A site of one station whose clock, plan and maximum of periods vary
InitPlans ==
  /\ \E kind \in RuntimeStationKinds : storage = <<MkStation(1, kind)>>
  /\ siteArea = [maximumPower |-> R(100000), voltage |-> 230,
                 numberOfPhases |-> 3, chargingStations |-> <<>>]
  /\ InitCycle
  /\ now \in Clocks
  /\ setting = [stickyLimitation |-> FALSE, limitBufferAC |-> 0,
                limitBufferDC |-> 0]
  /\ session = FreshSession
  /\ profileStorage = <<>>
  /\ maxPeriods \in {NaN} \cup {Number(n) : n \in {0, 2, 5, 30}}
  /\ optimizerPlan \in PlanKinds

SpecPlans == InitPlans /\ [][Next]_vars

\* Stations of the sites on which cycles are repeated
RepeatedStationKinds == {"ac3", "cpPlain", "excluded230", "cpExcludedOne"}

\* A site of two stations of 100 000 W on which buildChargingProfiles is called
\* several times
InitRepeated ==
  /\ \E kind1 \in RepeatedStationKinds, kind2 \in RepeatedStationKinds :
       storage = <<MkStation(1, kind1), MkStation(2, kind2)>>
  /\ siteArea = [maximumPower |-> R(100000), voltage |-> 230,
                 numberOfPhases |-> 3, chargingStations |-> <<>>]
  /\ InitCycle
  /\ now = Morning
  /\ setting = [stickyLimitation |-> FALSE, limitBufferAC |-> 0,
                limitBufferDC |-> 0]
  /\ session = FreshSession
  /\ profileStorage = <<>>
  /\ maxPeriods = NaN
  /\ optimizerPlan = "full"

NextRepeated == Next \/ RunAgain

\* Snapshots a cycle for another site reads: that site has no profile issued,
\* or one issued for its station 7
OtherSiteSnapshots ==
  {<<>>,
   <<[IssuedProfile(40 * SlotSeconds, 96) EXCEPT !.chargingStationID = 7]>>}

\* A cycle for another site, run on the same integration while this cycle
\* waits for the session of a connector, reads the profiles of its own site
\* into this.currentChargingProfiles
OtherCycleGetsChargingProfiles ==
  /\ pc = "stations"
  /\ StickyLimitationEnabled
  /\ \E snapshot \in OtherSiteSnapshots :
       /\ currentChargingProfiles.result # snapshot
       /\ currentChargingProfiles' = [undefined |-> FALSE, result |-> snapshot]
  /\ UNCHANGED <<envVars, currentDurationFromMidnightSeconds, pc, storage,
                 siteArea, siteArea0, excludedChargingStations, buildVars,
                 optimizerCalls, response, result, error>>

\* A site of one AC station with sticky limitation enabled, whose sessions
\* and former profiles vary
InitInterleaved ==
  /\ \E kind \in {"cpPlain", "ac120"} : storage = <<MkStation(1, kind)>>
  /\ siteArea = [maximumPower |-> R(100000), voltage |-> 230,
                 numberOfPhases |-> 3, chargingStations |-> <<>>]
  /\ InitCycle
  /\ now = Morning
  /\ setting \in {st \in Settings : st.stickyLimitation}
  /\ session \in Sessions
  /\ profileStorage \in ProfileStorages
  /\ maxPeriods = NaN
  /\ optimizerPlan = "full"

NextInterleaved == Next \/ OtherCycleGetsChargingProfiles

SpecInterleaved == InitInterleaved /\ [][NextInterleaved]_vars

SpecRepeated == InitRepeated /\ [][NextRepeated]_vars

\* ------------------------------------------------------------------------
\* Vocabulary of the properties
\* ------------------------------------------------------------------------

\* adjustSiteLimitation has returned
Sanitized == pc = "rootFuse" \/ rootFuse # Null

\* The cycle is over
Ended == pc \in {"done", "error"}

\* The station is removed as excluded from smart charging
ExcludedFromSmartCharging(chargingStation) ==
  \/ chargingStation.excludeFromSmartCharging
  \/ chargingStation.id \in excludedChargingStations

\* The charge point a connector is attached to, or nothing
ChargePointOf(chargingStation, connector) ==
  IF connector.chargePointID = 0 THEN Null
  ELSE getChargePointFromID(chargingStation, connector.chargePointID)

\* The connector belongs to a charge point excluded from power limitation
OnExcludedChargePoint(chargingStation, connector) ==
  /\ ChargePointOf(chargingStation, connector) # Null
  /\ ChargePointOf(chargingStation, connector).excludeFromPowerLimitation

\* Positions <<i, j>> of the connectors of a list of stations
Positions(stations) ==
  UNION {{<<i, j>> : j \in 1..Len(stations[i].connectors)} :
           i \in 1..Len(stations)}

\* Sum of the rated power of the stations removed as excluded, from index i on
RECURSIVE RemovedPower(_, _)
RemovedPower(stations, i) ==
  IF i > Len(stations) THEN Zero
  ELSE RAdd(IF ExcludedFromSmartCharging(stations[i])
            THEN R(stations[i].maximumPower) ELSE Zero,
            RemovedPower(stations, i + 1))

\* Sum of the capacities of the leaves on one phase, from leaf k on
RECURSIVE SumPhase(_, _, _)
SumPhase(children, phase, k) ==
  IF k > Len(children) THEN Zero
  ELSE RAdd(CASE phase = 1 -> children[k].fusePhase1
              [] phase = 2 -> children[k].fusePhase2
              [] phase = 3 -> children[k].fusePhase3,
            SumPhase(children, phase, k + 1))

FusePhase(node, phase) ==
  CASE phase = 1 -> node.fusePhase1
    [] phase = 2 -> node.fusePhase2
    [] phase = 3 -> node.fusePhase3

\* Identifiers of the nodes of the tree: root, then each station and its leaves
RECURSIVE StationNodeIds(_, _)
StationNodeIds(stationNodes, i) ==
  IF i > Len(stationNodes) THEN <<>>
  ELSE <<stationNodes[i].id>>
       \o [k \in 1..Len(stationNodes[i].children) |->
             stationNodes[i].children[k].id]
       \o StationNodeIds(stationNodes, i + 1)

NodeIds(root) == <<root.id>> \o StationNodeIds(root.children, 1)

\* ------------------------------------------------------------------------
\* Properties
\* ------------------------------------------------------------------------

\* The connector is on a mutual-exclusion charge point of which more than one
\* connector is in an active status
MutuallyExcluded(chargingStation, connector) ==
  LET chargePoint == ChargePointOf(chargingStation, connector)
  IN  /\ chargePoint # Null
      /\ chargePoint.cannotChargeInParallel
      /\ NumberOfConnectorsCurrentlyCharging(chargingStation,
                                             chargePoint.connectorIDs, 1) > 1

\* The loop of buildOptimizerRequest stands at a connector
AtConnector ==
  /\ stationIdx >= 1 /\ stationIdx <= Len(siteArea.chargingStations)
  /\ connIdx >= 1
  /\ connIdx <= Len(siteArea.chargingStations[stationIdx].connectors)

\* C1: when a charge point flagged cannotChargeInParallel has more than one
\* connector in an active status, building the request does not abort on the
\* connector's amperage and, once the request is built, the connector's leaf
\* is in the tree with capacity 0 on every phase.
C1_MutualExclusionZeroLeaf ==
  /\ (pc = "error" /\ AtConnector
      /\ MutuallyExcluded(siteArea.chargingStations[stationIdx],
                          siteArea.chargingStations[stationIdx].connectors[connIdx]))
       => error # "CannotGetAmperage"
  /\ request # Null =>
       \A p \in Positions(siteArea.chargingStations) :
         MutuallyExcluded(siteArea.chargingStations[p[1]],
                          siteArea.chargingStations[p[1]].connectors[p[2]])
           => /\ p[1] <= Len(request.rootFuse.children)
              /\ p[2] <= Len(request.rootFuse.children[p[1]].children)
              /\ \A phase \in 1..3 :
                   FusePhase(request.rootFuse.children[p[1]].children[p[2]],
                             phase) = Zero

\* No charge point of the site is excluded from power limitation
NoChargePointExcluded ==
  \A p \in Positions(siteArea0.chargingStations) :
    ~OnExcludedChargePoint(siteArea0.chargingStations[p[1]],
                           siteArea0.chargingStations[p[1]].connectors[p[2]])

\* C2: with no charge point excluded from power limitation, after
\* adjustSiteLimitation the site's maximum power is max(0, S - sum of the
\* rated power of the stations removed as excluded), whatever the voltages,
\* and no removed station is left in the site's station list.
C2_ExactPowerRemoved ==
  (Sanitized /\ NoChargePointExcluded) =>
    /\ siteArea.maximumPower =
         RMax(Zero, RSub(siteArea0.maximumPower,
                         RemovedPower(siteArea0.chargingStations, 1)))
    /\ \A i \in 1..Len(siteArea.chargingStations) :
         ~ExcludedFromSmartCharging(siteArea.chargingStations[i])

\* C3: after adjustSiteLimitation the site's capacity in amps and its
\* maximum power are >= 0, and so is every per-phase capacity of the root
\* fuse built afterwards.
C3_CapacityNeverNegative ==
  Sanitized =>
    /\ RLeq(Zero, siteArea.maximumPower)
    /\ RLeq(Zero, RDiv(siteArea.maximumPower, R(siteArea.voltage)))
    /\ rootFuse # Null =>
         \A phase \in 1..3 : RLeq(Zero, FusePhase(rootFuse, phase))

\* C3 witness: the exclusions exceeded the capacity of the site and the root
\* fuse was built on the clamped capacity
C3_Witness ==
  /\ rootFuse # Null
  /\ RLess(siteArea0.maximumPower, RemovedPower(siteArea0.chargingStations, 1))
  /\ siteArea.maximumPower = Zero
  /\ rootFuse.fusePhase1 = Zero

\* C4: after adjustSiteLimitation no connector left in a surviving station
\* belongs to a charge point flagged excludeFromPowerLimitation, also when the
\* charge point serves several connectors of the station.
C4_NoExcludedChargePointLeft ==
  Sanitized =>
    \A p \in Positions(siteArea.chargingStations) :
      ~OnExcludedChargePoint(siteArea.chargingStations[p[1]],
                             siteArea.chargingStations[p[1]].connectors[p[2]])

\* C5: adjustSiteLimitation raises no error, whatever the site: a cycle that
\* stops before the root fuse is built stops on the validity check only.
C5_AdjustNeverRaises ==
  (pc = "error" /\ rootFuse = Null) => error = "ValidationError"

\* C6: no request is produced for a site whose station list is empty once
\* sanitized, nor for a site lacking capacity, voltage or phase count.
C6_EmptySanitizedSiteRejected ==
  request # Null =>
    /\ Len(siteArea.chargingStations) > 0
    /\ siteArea0.maximumPower # Zero
    /\ siteArea0.voltage # 0
    /\ siteArea0.numberOfPhases # 0

\* C7: a cycle whose request holds no car returns an empty list of charging
\* profiles, raises no error and never calls the optimizer.
C7_NoCarEmptyResult ==
  (Ended /\ request # Null /\ Len(request.cars) = 0) =>
    /\ pc = "done"
    /\ error = ""
    /\ result = <<>>
    /\ optimizerCalls = 0

\* The connector has no session identifier, a session identifier that cannot
\* be resolved, no resolvable phase count or no amperage
Defective(chargingStation, connector) ==
  LET chargePoint == ChargePointOf(chargingStation, connector)
  IN  \/ connector.currentTransactionID = 0
      \/ getTransaction(chargingStation, connector) = Null
      \/ getNumberOfConnectedPhases(chargingStation, chargePoint,
                                    connector.connectorId) = 0
      \/ getChargingStationAmperage(chargingStation, chargePoint,
                                    connector.connectorId) = Zero

DefectiveSurvivor ==
  /\ Sanitized
  /\ \E p \in Positions(siteArea.chargingStations) :
       Defective(siteArea.chargingStations[p[1]],
                 siteArea.chargingStations[p[1]].connectors[p[2]])

\* C8: when a surviving connector is defective the cycle never gets past the
\* building of the request: no request, no call of the optimizer, no charging
\* profile, and the loop over the stations can only end in an error.
C8_DefectiveConnectorAborts ==
  DefectiveSurvivor =>
    /\ request = Null
    /\ optimizerCalls = 0
    /\ result = Null
    /\ pc \in {"rootFuse", "stations", "error"}
    /\ (pc = "stations" => stationIdx <= Len(siteArea.chargingStations))

\* C8 witness: the cycle ended in an error on a defective connector after
\* valid connectors had produced their cars
C8_Witness ==
  /\ DefectiveSurvivor
  /\ pc = "error"
  /\ error \in {"NoActiveTransaction", "TransactionNotFound",
                "CannotGetNumberOfPhases", "CannotGetAmperage"}
  /\ Len(cars) >= 2

\* C9: each station node's capacity on each phase is the sum of the
\* capacities of its leaves on that phase, and a station node of the tree has
\* at least one leaf.
C9_StationCapacityIsSumOfLeaves ==
  rootFuse # Null =>
    \A i \in 1..Len(rootFuse.children) :
      /\ Len(rootFuse.children[i].children) >= 1
      /\ \A phase \in 1..3 :
           FusePhase(rootFuse.children[i], phase) =
             SumPhase(rootFuse.children[i].children, phase, 1)

\* C9 witness: a built request with a station node over a three-phase leaf
\* and a single-phase leaf
C9_Witness ==
  /\ request # Null
  /\ \E i \in 1..Len(request.rootFuse.children) :
       /\ Len(request.rootFuse.children[i].children) = 2
       /\ request.rootFuse.children[i].fusePhase1
            # request.rootFuse.children[i].fusePhase2

\* C10: the root has identifier 0 and the identifiers of the root, the station
\* nodes and the leaves are pairwise distinct and strictly increasing in the
\* order in which the nodes are constructed.
C10_IdentifiersIncrease ==
  /\ \A i \in 1..Len(constructed) : \A j \in 1..Len(constructed) :
       i < j => constructed[i] < constructed[j]
  /\ rootFuse # Null =>
       /\ rootFuse.id = 0
       /\ constructed[1] = rootFuse.id
       /\ LET ids == NodeIds(rootFuse)
          IN  /\ \A i \in 1..Len(ids) : \A j \in 1..Len(ids) :
                   i # j => ids[i] # ids[j]
              /\ \A i \in 1..Len(ids) :
                   \E j \in 1..Len(constructed) : constructed[j] = ids[i]

\* C10 witness: a built request with two station nodes and three leaves
C10_Witness ==
  /\ request # Null
  /\ Len(request.rootFuse.children) = 2
  /\ Len(request.cars) >= 3

\* Identifiers of the leaves of the tree, station after station
RECURSIVE LeafIds(_, _)
LeafIds(stationNodes, i) ==
  IF i > Len(stationNodes) THEN <<>>
  ELSE [k \in 1..Len(stationNodes[i].children) |->
          stationNodes[i].children[k].id]
       \o LeafIds(stationNodes, i + 1)

\* C11: in every built request the cars, the car assignments and the leaves
\* are in one-to-one correspondence: each car's id is the id of exactly one
\* leaf, carAssignments holds exactly one entry per car with carID =
\* chargingStationID = that id, no two cars share a leaf, every leaf has its
\* car, and no car id is the id of the root or of a station node.
C11_CarsAssignmentsLeavesCorrespond ==
  request # Null =>
    LET leaves == LeafIds(request.rootFuse.children, 1)
    IN  /\ Len(request.cars) = Len(leaves)
        /\ Len(request.carAssignments) = Len(request.cars)
        /\ \A k \in 1..Len(request.cars) :
             /\ Cardinality({l \in 1..Len(leaves) :
                               leaves[l] = request.cars[k].id}) = 1
             /\ Cardinality({a \in 1..Len(request.carAssignments) :
                               request.carAssignments[a].carID
                                 = request.cars[k].id}) = 1
             /\ \A a \in 1..Len(request.carAssignments) :
                  request.carAssignments[a].carID = request.cars[k].id
                    => request.carAssignments[a].chargingStationID
                         = request.cars[k].id
             /\ \A j \in 1..Len(request.cars) :
                  j # k => request.cars[j].id # request.cars[k].id
             /\ request.cars[k].id # request.rootFuse.id
             /\ \A i \in 1..Len(request.rootFuse.children) :
                  request.cars[k].id # request.rootFuse.children[i].id
        /\ \A l \in 1..Len(leaves) :
             \E k \in 1..Len(request.cars) : request.cars[k].id = leaves[l]

\* C11 witness: a built request with three cars under two station nodes
C11_Witness ==
  /\ request # Null
  /\ Len(request.cars) = 3
  /\ Len(request.carAssignments) = 3
  /\ Len(request.rootFuse.children) = 2

\* C12: in one cycle the optimizer is called at most once: after a call that
\* failed or was answered with a non-success status the cycle has ended in
\* an error, no second call is issued and no charging profile is returned.
C12_OptimizerCalledAtMostOnce ==
  /\ optimizerCalls <= 1
  /\ (optimizerCalls >= 1 /\ response = Null) =>
       /\ pc = "error"
       /\ error = "UpstreamError"
       /\ result = Null

\* C12 witness: the only call of the cycle was rejected and the cycle ended
\* in an error
C12_Witness ==
  /\ optimizerCalls = 1
  /\ response = Null
  /\ pc = "error"
  /\ error = "UpstreamError"
  /\ Len(request.cars) >= 2

\* The optimizer answered and its answer was translated into result
Translated == pc = "done" /\ optimizerCalls >= 1

\* Index of the slot of the plan the cycle started in, counted from 0
FirstSlot == currentDurationFromMidnightSeconds \div SlotSeconds

\* Schedule periods of a charging profile
PeriodsOf(chargingProfile) ==
  chargingProfile.profile.chargingSchedule.chargingSchedulePeriod

\* Value of the plan slot that period k (counted from 1) of a schedule comes from
PlanValue(k) == Plan(optimizerPlan)[FirstSlot + k]

\* x is a number of 3 decimals at most 0.0005 away from exact
RoundedTo3(x, exact) ==
  /\ RMul(x, R(1000))[2] = 1
  /\ RLeq(RSub(x, exact), <<1, 2000>>)
  /\ RLeq(RSub(exact, x), <<1, 2000>>)

\* C13: every period emitted for a plan slot value v has the limit v x phase
\* count of the connector on an AC connector and v x phase count x
\* efficiency / 100 on a DC connector whose charge point declares an
\* efficiency, up to the rounding to 3 decimals.
C13_LimitIsPlanValueTimesPhases ==
  Translated =>
    \A p \in 1..Len(result) : \A k \in 1..Len(PeriodsOf(result[p])) :
      LET chargingStation == getChargingStation(storage, result[p].chargingStationID)
          connector == getConnectorFromID(chargingStation, result[p].connectorID)
          chargePoint == ChargePointOf(chargingStation, connector)
          phases == getNumberOfConnectedPhases(chargingStation, chargePoint,
                                               connector.connectorId)
          v == PlanValue(k)
          limit == PeriodsOf(result[p])[k].limit
      IN  IF getChargingStationCurrentType(chargingStation, connector.connectorId) = AC
          THEN RoundedTo3(limit, RMul(v, R(phases)))
          ELSE chargePoint.efficiency > 0 =>
                 RoundedTo3(limit, RDiv(RMul(RMul(v, R(phases)),
                                             R(chargePoint.efficiency)), R(100)))

\* C13 witness: a schedule of a DC connector of efficiency 90 % on 3 phases
\* whose plan value 10.6665 gives the limit 28.8 after rounding
C13_Witness ==
  /\ Translated
  /\ optimizerPlan = "fraction"
  /\ \E p \in 1..Len(result) :
       /\ getChargingStationCurrentType(
            getChargingStation(storage, result[p].chargingStationID),
            result[p].connectorID) = DC
       /\ Len(PeriodsOf(result[p])) >= 3
       /\ PeriodsOf(result[p])[1].limit = <<144, 5>>

\* The station, the connector and the session a car of the request stands for
StationOfCar(car) == getChargingStation(siteArea.chargingStations, car.name[1])

ConnectorOfCar(car) == getConnectorFromID(StationOfCar(car), car.name[2])

TransactionOfCar(car) == getTransaction(StationOfCar(car), ConnectorOfCar(car))

OnDC(car) ==
  getChargingStationCurrentType(StationOfCar(car), car.name[2]) = DC

\* The car of a session before the live data of the session are applied
OtherwiseComputedCar(car) ==
  overrideCarWithProvidedCar(StationOfCar(car), TransactionOfCar(car),
    buildSafeCar(car.id, StationOfCar(car), TransactionOfCar(car),
                 currentDurationFromMidnightSeconds))

\* The car of a session as delivered to the vehicle, before the grid-side
\* compensation of a DC station
VehicleSideCar(car) ==
  overrideCarWithRuntimeData(StationOfCar(car), TransactionOfCar(car),
                             OtherwiseComputedCar(car))

\* C14: on every DC connector, with a declared efficiency or with the default
\* one, translating a plan value equal to the grid-side per-phase maximum of
\* the car gives the vehicle-side per-phase maximum x phase count, up to
\* rounding.
C14_TranslationInvertsCompensation ==
  request # Null =>
    \A k \in 1..Len(request.cars) :
      LET car == request.cars[k]
          phases == getNumberOfConnectedPhases(StationOfCar(car), Null, car.name[2])
      IN  OnDC(car) =>
            RoundedTo3(calculateCarConsumption(StationOfCar(car), ConnectorOfCar(car),
                                               phases, car.maxCurrentPerPhase),
                       RMul(VehicleSideCar(car).maxCurrentPerPhase, R(phases)))

\* The leaves of the tree, station after station
RECURSIVE LeafNodes(_, _)
LeafNodes(stationNodes, i) ==
  IF i > Len(stationNodes) THEN <<>>
  ELSE stationNodes[i].children \o LeafNodes(stationNodes, i + 1)

\* The default efficiency as a fraction
DefaultEfficiencyFactor ==
  RDiv(R(DC_CHARGING_STATION_DEFAULT_EFFICIENCY_PERCENT), R(100))

\* C15: on a DC connector whose charge point declares no efficiency, the
\* capacity of the leaf and the per-phase maximum of the car are both their
\* vehicle-side value divided by the default efficiency taken as a fraction.
C15_SameDefaultFactor ==
  request # Null =>
    \A k \in 1..Len(request.cars) :
      LET car == request.cars[k]
          leaf == LeafNodes(request.rootFuse.children, 1)[k]
          connectorAmps ==
            getConnectorNbrOfPhasesAndAmps(StationOfCar(car),
                                           ConnectorOfCar(car)).connectorAmps
          chargePoint == ChargePointOf(StationOfCar(car), ConnectorOfCar(car))
      IN  (OnDC(car) /\ ~(chargePoint # Null /\ chargePoint.efficiency > 0)) =>
            /\ RMul(car.maxCurrentPerPhase, DefaultEfficiencyFactor)
                 = VehicleSideCar(car).maxCurrentPerPhase
            /\ RMul(leaf.fusePhase1, DefaultEfficiencyFactor)
                 = RDiv(connectorAmps.totalAmps,
                        R(connectorAmps.numberOfConnectedPhase))

\* The largest number of periods the station accepts: the parsed
\* ChargingScheduleMaxPeriods, or 20 when it is not a number
ScheduleCap ==
  IF maxPeriods.isNaN THEN DefaultScheduleMaxPeriods ELSE maxPeriods.value

\* Number of plan slots from the current slot to the end of the plan
SlotsLeft ==
  IF Len(Plan(optimizerPlan)) > FirstSlot
  THEN Len(Plan(optimizerPlan)) - FirstSlot ELSE 0

Min(a, b) == IF a <= b THEN a ELSE b

\* C16 as stated: every schedule produced by the plan translator holds at
\* least 3 periods, i.e. lasts at least 2700 seconds, whatever the time of day,
\* the plan and the station's maximum of periods.
C16_AtLeastThreePeriods ==
  Translated =>
    \A p \in 1..Len(result) :
      /\ Len(PeriodsOf(result[p])) >= 3
      /\ result[p].profile.chargingSchedule.duration >= 2700

\* C16 amended: every schedule holds at least min(3, maximum of periods of
\* the station, plan slots left from the current slot) periods: the zero
\* value of a slot never ends a schedule before its third period.
C16_AtLeastThreePeriodsWhenAllowed ==
  Translated =>
    \A p \in 1..Len(result) :
      /\ Len(PeriodsOf(result[p]))
           >= Min(MinSchedulePeriods, Min(ScheduleCap, SlotsLeft))
      /\ result[p].profile.chargingSchedule.duration
           >= Min(MinSchedulePeriods, Min(ScheduleCap, SlotsLeft)) * SlotSeconds

\* C16 witness: a schedule of exactly 3 periods over a plan of zeros, for a
\* station that accepts more periods and with more slots left
C16_Witness ==
  /\ Translated
  /\ optimizerPlan = "zero"
  /\ ScheduleCap > 3 /\ SlotsLeft > 3
  /\ \E p \in 1..Len(result) :
       /\ Len(PeriodsOf(result[p])) = 3
       /\ result[p].profile.chargingSchedule.duration = 2700

\* C17: the number of periods of every schedule is at most the station's
\* ChargingScheduleMaxPeriods when it parses as a number and at most 20
\* otherwise, and at most the number of plan slots from the current slot to
\* the end of the plan.
C17_PeriodsBounded ==
  Translated =>
    \A p \in 1..Len(result) :
      /\ ~maxPeriods.isNaN => Len(PeriodsOf(result[p])) <= maxPeriods.value
      /\ maxPeriods.isNaN => Len(PeriodsOf(result[p])) <= 20
      /\ Len(PeriodsOf(result[p])) <= SlotsLeft

\* C17 witness: a schedule stopped by the station's maximum of 5 periods
\* while the plan goes on with values > 0
C17_Witness ==
  /\ Translated
  /\ maxPeriods = Number(5)
  /\ SlotsLeft > 5
  /\ RLess(Zero, PlanValue(6))
  /\ \E p \in 1..Len(result) : Len(PeriodsOf(result[p])) = 5

\* C18: the periods of a schedule are the plan slots taken one after the
\* other from the current slot, period k (counted from 0) starting at k * 900
\* seconds and the duration being 900 seconds per period; every period of
\* index 3 or more comes from a plan value > 0, and a schedule that ends
\* before the station's maximum and before the end of the plan has at least 3
\* periods and ends at a slot of value 0.
C18_ConsecutiveSlotsUntilZero ==
  Translated =>
    \A p \in 1..Len(result) :
      LET periods == PeriodsOf(result[p])
          chargingStation == getChargingStation(storage, result[p].chargingStationID)
          connector == getConnectorFromID(chargingStation, result[p].connectorID)
          phases == getNumberOfConnectedPhases(chargingStation,
                      ChargePointOf(chargingStation, connector), connector.connectorId)
      IN  /\ result[p].profile.chargingSchedule.duration = Len(periods) * 900
          /\ \A k \in 1..Len(periods) :
               /\ periods[k].startPeriod = (k - 1) * 900
               /\ periods[k].limit =
                    calculateCarConsumption(chargingStation, connector, phases,
                                            PlanValue(k))
               /\ k - 1 >= 3 => RLess(Zero, PlanValue(k))
          /\ (Len(periods) < ScheduleCap /\ Len(periods) < SlotsLeft) =>
               /\ Len(periods) >= 3
               /\ PlanValue(Len(periods) + 1) = Zero

\* C18 witness: a schedule of 4 periods that starts on a slot of value 0 and
\* ends at the next slot of value 0, before the station's maximum
C18_Witness ==
  /\ Translated
  /\ optimizerPlan = "gap"
  /\ PlanValue(1) = Zero
  /\ ScheduleCap > 4 /\ SlotsLeft > 4
  /\ \E p \in 1..Len(result) :
       /\ Len(PeriodsOf(result[p])) = 4
       /\ PeriodsOf(result[p])[4].startPeriod = 2700
       /\ PeriodsOf(result[p])[1].limit = Zero

\* Number of measured phases of the session of a car, -1 when not valid
MeasuredPhases(car) ==
  getNumberOfUsedPhasesInTransactionInProgress(StationOfCar(car),
                                               TransactionOfCar(car))

\* Exactly one profile of this.currentChargingProfiles was issued for the
\* session of the car
OnePreviousProfile(car) ==
  Len(ProfilesOfTransaction(StationOfCar(car), TransactionOfCar(car))) = 1

\* The limit in force of the one profile issued for the session of the car
PreviousLimit(car) ==
  getCurrentSapSmartChargingProfileLimit(
    ProfilesOfTransaction(StationOfCar(car), TransactionOfCar(car))[1])

\* An AC session with valid measured phases
MeasuredAC(car) ==
  /\ ~OnDC(car)
  /\ TransactionOfCar(car).phasesUsed # Null
  /\ MeasuredPhases(car) # -1

\* A DC session with an instantaneous power and no measured phases
MeasuredDC(car) ==
  /\ OnDC(car)
  /\ TransactionOfCar(car).phasesUsed = Null
  /\ RLess(Zero, TransactionOfCar(car).currentInstantWattsDC)

\* C19: with sticky limitation, on an AC session with valid measured phases
\* for which exactly one previous profile matches, when the vehicle is not
\* judged to be increasing its consumption and draws more than 0 A, the
\* maximum per phase of the car is (instantaneous current / measured phases)
\* x (1 + AC buffer %), to 3 decimals.
C19_StickyClampAC ==
  (request # Null /\ setting.stickyLimitation) =>
    \A k \in 1..Len(request.cars) :
      LET car == request.cars[k]
          transaction == TransactionOfCar(car)
      IN  (/\ MeasuredAC(car)
           /\ OnePreviousProfile(car)
           /\ ~checkIfCarIsIncreasingConsumption(StationOfCar(car), transaction,
                 AC, OtherwiseComputedCar(car), MeasuredPhases(car))
           /\ RLess(Zero, transaction.currentInstantAmps))
          => RoundedTo3(car.maxCurrentPerPhase,
               RMul(RDiv(transaction.currentInstantAmps, R(MeasuredPhases(car))),
                    RAdd(R(1), RDiv(R(setting.limitBufferAC), R(100)))))

\* C19 witness: previous limit of 96 A on 3 phases (32 A per phase), buffer of
\* 10 %, draw of 20 A on 1 phase, on a connector of 40 A per phase: the
\* maximum per phase of the car is 22 A
C19_Witness ==
  /\ request # Null
  /\ setting.stickyLimitation
  /\ setting.limitBufferAC = 10
  /\ session.currentInstantAmps = R(20)
  /\ session.phasesUsed = PhasesUsed(TRUE, FALSE, FALSE)
  /\ Len(request.cars) = 1
  /\ MeasuredAC(request.cars[1])
  /\ OnePreviousProfile(request.cars[1])
  /\ RDiv(PreviousLimit(request.cars[1]), R(3)) = R(32)
  /\ OtherwiseComputedCar(request.cars[1]).maxCurrentPerPhase = R(40)
  /\ request.cars[1].maxCurrentPerPhase = R(22)

\* The draw of the session of a car and the previous limit and the
\* otherwise-computed maximum it is compared with, all per phase on AC and
\* all aggregate on DC
Draw(car) ==
  IF OnDC(car)
  THEN convertWattToAmp(StationOfCar(car), car.name[2],
                        TransactionOfCar(car).currentInstantWattsDC)
  ELSE RDiv(TransactionOfCar(car).currentInstantAmps, R(MeasuredPhases(car)))

PreviousLimitInUnit(car) ==
  IF OnDC(car) THEN PreviousLimit(car)
  ELSE RDiv(PreviousLimit(car),
            R(getNumberOfConnectedPhases(StationOfCar(car), Null, car.name[2])))

OtherwiseComputedMaxInUnit(car) ==
  IF OnDC(car) THEN OtherwiseComputedCar(car).maxCurrent
  ELSE OtherwiseComputedCar(car).maxCurrentPerPhase

\* The maximum per phase of the car left at its otherwise-computed value
UnclampedMaxPerPhase(car) ==
  IF OnDC(car)
  THEN CarGridSideAmpsPerPhase(ChargePointOf(StationOfCar(car), ConnectorOfCar(car)),
                               OtherwiseComputedCar(car).maxCurrentPerPhase)
  ELSE OtherwiseComputedCar(car).maxCurrentPerPhase

\* C20: with sticky limitation, on AC and on DC sessions, when the draw of the
\* vehicle exceeds the widened threshold (previous limit / (1 + buffer %) plus
\* 20 % of the gap to the previous limit) and the previous limit is below the
\* otherwise-computed maximum of the car in the same unit, the maximum of the
\* car is left at the otherwise-computed value.
C20_IncreasingLeavesMaximum ==
  (request # Null /\ setting.stickyLimitation) =>
    \A k \in 1..Len(request.cars) :
      LET car == request.cars[k]
          buffer == IF OnDC(car) THEN setting.limitBufferDC
                    ELSE setting.limitBufferAC
      IN  (/\ MeasuredAC(car) \/ MeasuredDC(car)
           /\ OnePreviousProfile(car)
           /\ RLeq(R(1), PreviousLimit(car))
           /\ RLess(WidenedThreshold(PreviousLimitInUnit(car), buffer), Draw(car))
           /\ RLess(PreviousLimitInUnit(car), OtherwiseComputedMaxInUnit(car)))
          => car.maxCurrentPerPhase = UnclampedMaxPerPhase(car)

\* C21: sticky limitation only lowers the maximum: the maximum per phase of a
\* car before the DC efficiency division is never greater than the maximum
\* computed for the same session without sticky limitation, which is the
\* otherwise-computed maximum.
C21_StickyOnlyLowers ==
  request # Null =>
    \A k \in 1..Len(request.cars) :
      RLeq(VehicleSideCar(request.cars[k]).maxCurrentPerPhase,
           OtherwiseComputedCar(request.cars[k]).maxCurrentPerPhase)

\* C30: every car of a built request has minCurrentPerPhase <= maxCurrentPerPhase
\* and minCurrent <= maxCurrent.
C30_MinimumNotAboveMaximum ==
  request # Null =>
    \A k \in 1..Len(request.cars) :
      /\ RLeq(request.cars[k].minCurrentPerPhase, request.cars[k].maxCurrentPerPhase)
      /\ RLeq(request.cars[k].minCurrent, request.cars[k].maxCurrent)

\* C22: the arrival timestamp of every car lies between 0 and the time of the
\* cycle: a session started before midnight or more than 30 seconds after the
\* current instant gets arrival 0.
C22_ArrivalWithinTheDay ==
  request # Null =>
    \A k \in 1..Len(request.cars) :
      /\ 0 <= request.cars[k].timestampArrival
      /\ request.cars[k].timestampArrival <= currentDurationFromMidnightSeconds

\* The flag of the optimizer for a phase in use
PhaseFlag(used) == IF used THEN 1 ELSE 0

Readings == {Zero, R(10), R(20), R(94), R(39200)}

\* The session with other instantaneous readings
WithReadings(transaction, amps, watts) ==
  [transaction EXCEPT !.currentInstantAmps = amps,
                      !.currentInstantWattsDC = watts]

\* C25: with sticky limitation disabled, previously issued profiles are never
\* read during the cycle, and every car of the request is the car built for
\* the same session with any other instantaneous current and power readings;
\* the leaves and the root of the tree are those of the topology alone.
C25_ReadingsIgnoredWithoutSticky ==
  ~setting.stickyLimitation =>
    /\ currentChargingProfiles = NeverRead
    /\ request # Null =>
         /\ request.rootFuse.fusePhase1
              = buildRootFuse(request.rootFuse.id, siteArea).fusePhase1
         /\ \A k \in 1..Len(request.cars) :
              LET car == request.cars[k]
                  leaf == LeafNodes(request.rootFuse.children, 1)[k]
              IN  /\ leaf = buildChargingStationConnectorFuse(car.id,
                              StationOfCar(car), ConnectorOfCar(car)).fuse
                  /\ \A amps \in Readings, watts \in Readings :
                       buildCar(car.id, StationOfCar(car),
                                WithReadings(TransactionOfCar(car), amps, watts),
                                currentDurationFromMidnightSeconds) = car

\* A request built without sticky limitation for a session that reports a
\* draw, while profiles of former cycles are in the storage
C25_Witness ==
  /\ ~setting.stickyLimitation
  /\ request # Null
  /\ Len(request.cars) = 1
  /\ profileStorage # <<>>
  /\ \/ RLess(Zero, session.currentInstantAmps)
     \/ RLess(Zero, session.currentInstantWattsDC)

\* A site of 10 000 W, 230 V and 3 phases with one station holding one AC
\* connector of 32 A on 3 phases, no charge point, with an active session
\* without vehicle profile and without live phase data, no station being
\* excluded by the caller, whose request is built
SiteOf10kWWithOneConnector ==
  /\ excludedChargingStations = {}
  /\ siteArea0.maximumPower = R(10000)
  /\ siteArea0.voltage = 230
  /\ siteArea0.numberOfPhases = 3
  /\ storage = <<MkStation(1, "ac3")>>
  /\ session = FreshSession
  /\ request # Null

\* The request has one car and one leaf, with the given maxima and capacities
OneCarOneLeaf(maxCurrentPerPhase, maxCurrent, rootAmps, leafAmps) ==
  /\ Len(request.cars) = 1
  /\ request.cars[1].maxCurrentPerPhase = maxCurrentPerPhase
  /\ request.cars[1].maxCurrent = maxCurrent
  /\ request.rootFuse.fusePhase1 = rootAmps
  /\ request.rootFuse.fusePhase2 = rootAmps
  /\ request.rootFuse.fusePhase3 = rootAmps
  /\ Len(LeafNodes(request.rootFuse.children, 1)) = 1
  /\ LeafNodes(request.rootFuse.children, 1)[1].fusePhase1 = leafAmps

ConnectorOfResponseCar(car) ==
  getConnectorFromID(getChargingStation(storage, car.name[1]), car.name[2])

\* C26: for a car of the optimizer response whose connector has no charge
\* point attached, the translation does not fail and produces a charging
\* profile whose limits are the plan values x the phase count of the connector.
C26_ConnectorWithoutChargePointTranslated ==
  (response # Null /\ pc \in {"done", "error"}) =>
    \A c \in 1..Len(response.cars) :
      LET connector == ConnectorOfResponseCar(response.cars[c])
      IN  (connector # Null /\ connector.chargePointID = 0
             /\ connector.currentType = AC) =>
            /\ pc = "done"
            /\ \E p \in 1..Len(result) :
                 /\ result[p].chargingStationID = response.cars[c].name[1]
                 /\ result[p].connectorID = response.cars[c].name[2]
                 /\ \A k \in 1..Len(PeriodsOf(result[p])) :
                      RoundedTo3(PeriodsOf(result[p])[k].limit,
                                 RMul(PlanValue(k),
                                      R(connector.numberOfConnectedPhase)))

\* C27: the first period of every schedule comes from the plan slot that
\* contains startSchedule: the starting index of the plan, computed from the
\* time captured at the start of the cycle, is the 15-minute slot of
\* startSchedule, computed when the response is translated.
C27_StartIndexIsSlotOfStartSchedule ==
  Translated =>
    \A p \in 1..Len(result) :
      result[p].profile.chargingSchedule.startSchedule \div SlotSeconds
        = FirstSlot

\* C29: when buildChargingProfiles runs twice in a row on the same site object
\* with the same stations in the storage and the same excluded stations, the
\* root fuse of the second request has the capacity of the root fuse of the
\* first: the reduction of one cycle is not applied again in the next.
C29_SameRootFuseWhenRepeated ==
  (/\ previousCycle.number >= 1
   /\ previousCycle.rootFuse # Null
   /\ rootFuse # Null
   /\ excludedChargingStations = previousCycle.excludedChargingStations) =>
    /\ rootFuse.fusePhase1 = previousCycle.rootFuse.fusePhase1
    /\ rootFuse.fusePhase2 = previousCycle.rootFuse.fusePhase2
    /\ rootFuse.fusePhase3 = previousCycle.rootFuse.fusePhase3

\* The profiles of the storage issued for the stations of the site: what the
\* cycle reads when no other cycle runs on the integration
OwnSnapshot ==
  LET OfSite(p) == \E i \in 1..Len(storage) : storage[i].id = p.chargingStationID
  IN  SelectSeq(profileStorage, OfSite)

\* The profiles of the snapshot of the site issued for the session of a car
OwnProfilesOfTransaction(car) ==
  LET Matches(p) ==
        /\ p.profile.transactionId = TransactionOfCar(car).id
        /\ p.chargingStationID = StationOfCar(car).id
        /\ p.connectorID = car.name[2]
  IN  SelectSeq(OwnSnapshot, Matches)

\* The vehicle of an AC session judged against the snapshot of its own site
IncreasingAgainstOwnSnapshot(car) ==
  LET own == OwnProfilesOfTransaction(car)
      limit == getCurrentSapSmartChargingProfileLimit(own[1])
      perPhase ==
        RDiv(limit, R(getNumberOfConnectedPhases(StationOfCar(car), Null,
                                                 car.name[2])))
  IN  IF Len(own) # 1 THEN FALSE
      ELSE IF limit = Null THEN FALSE
      ELSE IF RLess(limit, R(1)) THEN TRUE
      ELSE /\ RLess(WidenedThreshold(perPhase, setting.limitBufferAC), Draw(car))
           /\ RLess(perPhase, OtherwiseComputedCar(car).maxCurrentPerPhase)

\* The maximum per phase an AC session with measured phases gets when its
\* cycle runs alone
MaxPerPhaseWhenRunAlone(car) ==
  IF IncreasingAgainstOwnSnapshot(car)
  THEN OtherwiseComputedCar(car).maxCurrentPerPhase
  ELSE IF RLess(Zero, TransactionOfCar(car).currentInstantAmps)
  THEN StickyLimitAC(TransactionOfCar(car), MeasuredPhases(car))
  ELSE OtherwiseComputedCar(car).minCurrentPerPhase

\* C28: with sticky limitation, when cycles for two sites run interleaved on
\* one integration, the sessions of a cycle are evaluated against the snapshot
\* of previous profiles of its own site: the car of every AC session with
\* measured phases has the maximum it gets when the cycle runs alone.
C28_EvaluatedAgainstOwnSnapshot ==
  (request # Null /\ setting.stickyLimitation) =>
    \A k \in 1..Len(request.cars) :
      MeasuredAC(request.cars[k]) =>
        request.cars[k].maxCurrentPerPhase
          = MaxPerPhaseWhenRunAlone(request.cars[k])

====
